---- MODULE Spec2Model ----
(***************************************************************************)
(* A model of the urhook runtime function-interception library (AArch64):  *)
(* the inline-hook engine (registry, chains, detour stub, trampoline,      *)
(* target patching), the memory patch primitive and the mid-function hook. *)
(*                                                                         *)
(* Addresses are kept in units of one instruction word (4 bytes): every    *)
(* address the engine patches or jumps to is 4-byte aligned.  Sizes that   *)
(* the code keeps in bytes (backup_size, patch_size_at_target, ...) stay   *)
(* in bytes.  The model assumes mprotect succeeds on the target page.      *)
(***************************************************************************)
EXTENDS Integers, Sequences, FiniteSets, TLC

\* ------------------------------------------------------------------------
\* Bounds of the model
\* ------------------------------------------------------------------------
MaxHandles == 2      \* Hook objects that can exist at the same time
MemWords == 6        \* instruction words of each target that the model keeps
MaxThreads == 2      \* caller threads of the stepwise specification

\* ------------------------------------------------------------------------
\* Program constants
\* ------------------------------------------------------------------------
ABS_JUMP_SIZE == 20
JUMP_INSTRUCTION_SIZE == ABS_JUMP_SIZE   \* what MidHook::do_hook requires of gen_abs_jump
WORD == 4
PAGE_WORDS == 1024
B_MIN_WORDS == -33554432
B_MAX_WORDS == 33554431
BCOND_MIN_WORDS == -131072
BCOND_MAX_WORDS == 131071
ADRP_MIN_PAGES == -524288
ADRP_MAX_PAGES == 524287

NULL == 0

Targets == {1, 2}
SeqTargets == {1}     \* the target the sequential specification hooks
ShortTarget == 3      \* a function that is a single RET
MemTargets == Targets \cup {ShortTarget}
Handles == 1..MaxHandles
MoveHandle == MaxHandles + 1   \* a Hook object that only a move constructs
AllHandles == Handles \cup {MoveHandle}
Threads == 1..MaxThreads

\* ------------------------------------------------------------------------
\* Address layout (word units)
\* ------------------------------------------------------------------------
TargetBase(t) == 1073741824 + (t - 1) * 4096
TargetAddr(t) == TargetBase(t) + 8
NearStub(t) == TargetBase(t) + 262144
MidStub(t) == TargetBase(t) - 134217728
FarStub(t) == (t - 1) * 4096 + 1024
TrampAddr(t) == (t - 1) * 4096 + 2048
StubChoices(t) == {NULL, NearStub(t), MidStub(t), FarStub(t)}
TrampChoices(t) == {NULL, TrampAddr(t)}
Cb(k) == 1074790400 + 64 * k
Callbacks == {Cb(1), Cb(2)}
BranchDest(t) == TargetAddr(t) + 16

\* ------------------------------------------------------------------------
\* Instruction words.  A word is a triple <<mnemonic, a, b>>.
\* ------------------------------------------------------------------------
Mod(a, n) == a % n
PageOf(addr) == addr \div PAGE_WORDS

\* 16-bit chunk k (0..3) of the byte address of word address dest
Chunk(dest, k) ==
    CASE k = 0 -> (dest % 16384) * 4
      [] k = 1 -> (dest \div 16384) % 65536
      [] k = 2 -> ((dest \div 16384) \div 65536) % 65536
      [] OTHER -> 0

\* word address rebuilt from four 16-bit chunks of a byte address
FromChunks(c0, c1, c2, c3) == (c0 \div 4) + c1 * 16384 + c2 * 1073741824

gen_abs_jump(dest) ==
    << <<"MOVZ", Chunk(dest, 0), 0>>, <<"MOVK", Chunk(dest, 1), 16>>,
       <<"MOVK", Chunk(dest, 2), 32>>, <<"MOVK", Chunk(dest, 3), 48>>,
       <<"BR", 16, 0>> >>

\* Assembler::b : throws when the offset is outside the imm26 range
b_in_range(from, dest) == dest - from >= B_MIN_WORDS /\ dest - from <= B_MAX_WORDS
b_word(from, dest) == <<"B", Mod(dest - from, 67108864), 0>>

\* Assembler::b(cond) : throws when the offset is outside the imm19 range
bcond_in_range(from, dest) ==
    dest - from >= BCOND_MIN_WORDS /\ dest - from <= BCOND_MAX_WORDS
bcond_word(from, dest, cond) == <<"BCOND", Mod(dest - from, 524288), cond>>

\* Assembler::adrp : throws when the page offset is outside 32 signed bits
adrp_in_range(from, dest) ==
    PageOf(dest) - PageOf(from) >= ADRP_MIN_PAGES /\
    PageOf(dest) - PageOf(from) <= ADRP_MAX_PAGES
adrp_word(from, dest, rd) == <<"ADRP", Mod(PageOf(dest) - PageOf(from), 2097152), rd>>
add_imm_word(rd, imm12) == <<"ADD", imm12, rd>>

\* Assembler::mov(rd, imm64): MOVZ/MOVK over the non-zero chunks only
RECURSIVE mov_chunks(_, _, _, _)
mov_chunks(rd, addr, k, first) ==
    IF k > 3 THEN (IF first THEN << <<"MOVZ", 0, 0, rd>> >> ELSE << >>)
    ELSE IF Chunk(addr, k) # 0
         THEN << <<(IF first THEN "MOVZ" ELSE "MOVK"), Chunk(addr, k), 16 * k, rd>> >>
              \o mov_chunks(rd, addr, k + 1, FALSE)
         ELSE mov_chunks(rd, addr, k + 1, first)
gen_load_address(rd, addr) == mov_chunks(rd, addr, 0, TRUE)

\* sign extension of an n-valued two's complement field
SignExt(v, n) == IF v >= n \div 2 THEN v - n ELSE v

\* Where the processor goes when it starts executing code at address at:
\* the destination of the jump sequence, or "fallthrough" when the code
\* does not start with one of the jump sequences the engine writes.
JumpDest(code, at) ==
    IF Len(code) >= 1 /\ code[1][1] = "B"
    THEN at + SignExt(code[1][2], 67108864)
    ELSE IF Len(code) >= 3 /\ code[1][1] = "ADRP" /\ code[2][1] = "ADD" /\ code[3][1] = "BR"
    THEN (PageOf(at) + SignExt(code[1][2], 2097152)) * PAGE_WORDS + code[2][2] \div 4
    ELSE IF Len(code) >= 5 /\ code[1][1] = "MOVZ" /\ code[2][1] = "MOVK"
            /\ code[3][1] = "MOVK" /\ code[4][1] = "MOVK" /\ code[5][1] = "BR"
    THEN FromChunks(code[1][2], code[2][2], code[3][2], code[4][2])
    ELSE -1

\* ------------------------------------------------------------------------
\* Target code and its decoding
\* ------------------------------------------------------------------------
\* Instruction i of target t as the disassembler classifies it.
\* Target 1 is a plain prologue whose 5th and 6th instructions are
\* ADRP x0 ; ADD x0, x0, #imm.  Target 2 starts with that pair, followed by
\* a B.cond.  ShortTarget is a single RET; the words after it are the
\* plain instructions of the function that follows.
Insn(t, i) ==
    IF t = ShortTarget
    THEN (IF i = 1 THEN "RET" ELSE "PLAIN")
    ELSE IF t = 2
    THEN CASE i = 1 -> "ADRP"
           [] i = 2 -> "ADD"
           [] i = 3 -> "BCOND"
           [] OTHER -> "PLAIN"
    ELSE CASE i = 5 -> "ADRP"
           [] i = 6 -> "ADD"
           [] OTHER -> "PLAIN"

\* the number of instructions of function t; the words of the model's
\* memory after them belong to the function that follows t
FunctionWords(t) == IF t = ShortTarget THEN 1 ELSE MemWords

OrigWord(t, i) == <<"ORIG", t, i>>
OriginalCode(t) == [i \in 1..MemWords |-> OrigWord(t, i)]

\* decode_instruction: the instruction id of a word in memory
decode_instruction(w) ==
    IF w[1] = "ORIG" THEN Insn(w[2], w[3])
    ELSE IF w[1] \in {"B", "BCOND", "ADRP", "ADD"} THEN w[1]
    ELSE "PLAIN"

\* ------------------------------------------------------------------------
\* memory::atomic_patch
\* ------------------------------------------------------------------------
\* overwrite words [from .. from+Len(ws)-1] (1-based) of m with ws
WriteWords(m, from, ws) ==
    [i \in 1..Len(m) |->
        IF i >= from /\ i < from + Len(ws) THEN ws[i - from + 1] ELSE m[i]]

\* step 1 of atomic_patch: all but the first 4 bytes (only when size > 4)
atomic_patch_tail(m, code) ==
    IF Len(code) > 1 THEN WriteWords(m, 2, SubSeq(code, 2, Len(code))) ELSE m
\* step 2 of atomic_patch: the first 4 bytes
atomic_patch_head(m, code) == WriteWords(m, 1, <<code[1]>>)
atomic_patch(m, code) ==
    IF Len(code) = 0 THEN m
    ELSE atomic_patch_head(atomic_patch_tail(m, code), code)

\* ------------------------------------------------------------------------
\* Trampoline relocation (relocate_trampoline)
\* ------------------------------------------------------------------------
\* address an ADRP+ADD pair of target t materialises
PairAddr(t) == TargetBase(t) + 2048 + 4

\* One pass of the relocation loop over the decoded words ws, starting at
\* instruction i (1-based), with the relocated code emitted so far in code
\* and the bytes consumed so far in backup.  tramp is the address the
\* trampoline assembler was created with.  The result is
\* [ok, backup_size, code]; ok = FALSE is an exception thrown by the
\* encoder, and backup_size is then the value left in the by-reference
\* argument at that moment.
RECURSIVE relocate_loop(_, _, _, _, _, _, _)
relocate_loop(t, ws, i, backup, code, tramp, required) ==
    IF i > Len(ws) THEN [ok |-> TRUE, backup_size |-> backup, code |-> code]
    ELSE LET k == decode_instruction(ws[i])
             pair == k = "ADRP" /\ i + 1 <= Len(ws)
                     /\ decode_instruction(ws[i + 1]) = "ADD"
             emitted ==
                 CASE pair -> gen_load_address(0, PairAddr(t))
                   [] k = "ADRP" -> gen_load_address(0, PageOf(PairAddr(t)) * PAGE_WORDS)
                   [] k = "BCOND" -> << bcond_word(tramp + Len(code), BranchDest(t), 0) >>
                   [] k = "B" -> gen_load_address(16, BranchDest(t)) \o << <<"BR", 16, 0>> >>
                   [] OTHER -> << ws[i] >>
             throws == k = "BCOND" /\ ~bcond_in_range(tramp + Len(code), BranchDest(t))
             consumed == IF pair THEN 2 ELSE 1
             backup2 == backup + consumed * WORD
         IN  IF throws THEN [ok |-> FALSE, backup_size |-> backup, code |-> code]
             ELSE IF backup2 >= required
                  THEN [ok |-> TRUE, backup_size |-> backup2, code |-> code \o emitted]
                  ELSE relocate_loop(t, ws, i + consumed, backup2, code \o emitted,
                                     tramp, required)

relocate_trampoline(t, ws, tramp, required) ==
    relocate_loop(t, ws, 1, 0, << >>, tramp, required)

\* ========================================================================
\* relocate_trampoline instruction by instruction, and the execution of the
\* original prefix and of the trampoline
\* ========================================================================
\* Original instruction words, pc-relative fields as offsets in words:
\*   <<"ADRP", pages, rd>>      <<"ADR", off, rd>>      <<"LDR_LIT", off, rt>>
\*   <<"ADD", imm, rd, rn>>     <<"LDR", rt, rn, disp>> <<"STR", rt, rn, disp>>
\*   <<"BCOND", off, cond>>     <<"CBZ", off, rt>>      <<"CBNZ", off, rt>>
\*   <<"TBZ", off, rt, bit>>    <<"TBNZ", off, rt, bit>>  <<"NOP", 0, 0>>
\* imm and disp are byte counts, registers are numbers (16 is X16).
X16 == 16
Regs == {0, 1, X16}
COND_EQ == 0
NopWord == <<"NOP", 0, 0>>
adr_word(from, dest, rd) == <<"ADR", Mod(dest - from, 524288), rd>>
ldr_lit_word(from, dest, rt) == <<"LDR_LIT", Mod(dest - from, 524288), rt>>
cbz_word(from, dest, rt) == <<"CBZ", Mod(dest - from, 524288), rt>>
cbnz_word(from, dest, rt) == <<"CBNZ", Mod(dest - from, 524288), rt>>
tbz_word(from, dest, rt, bit) == <<"TBZ", Mod(dest - from, 16384), rt, bit>>
tbnz_word(from, dest, rt, bit) == <<"TBNZ", Mod(dest - from, 16384), rt, bit>>
add_word(rd, rn, imm) == <<"ADD", imm, rd, rn>>
ldr_word(rt, rn, disp) == <<"LDR", rt, rn, disp>>
str_word(rt, rn, disp) == <<"STR", rt, rn, disp>>

\* operands as the disassembler pushes them: a register, an immediate or a
\* memory operand (base register, displacement)
create_reg_operand(r) == <<"REGISTER", r, 0>>
create_imm_operand(v) == <<"IMMEDIATE", v, 0>>
create_mem_operand(base, disp) == <<"MEMORY", base, disp>>

\* AArch64Disassembler::decode_instruction on the word w found at address
\* at: id, group, is_pc_relative, cond and the operand list
Disassemble(w, at) ==
    LET k == w[1]
        ins(id, jump, pcrel, cond, ops) ==
            [id |-> id, jump |-> jump, is_pc_relative |-> pcrel,
             cond |-> cond, operands |-> ops]
    IN  CASE k = "BCOND" ->
               ins("B_COND", TRUE, TRUE, w[3],
                   << create_imm_operand(at + SignExt(w[2], 524288)) >>)
          [] k \in {"CBZ", "CBNZ"} ->
               ins(k, TRUE, TRUE, 0,
                   << create_reg_operand(w[3]),
                      create_imm_operand(at + SignExt(w[2], 524288)) >>)
          [] k \in {"TBZ", "TBNZ"} ->
               ins(k, TRUE, TRUE, 0,
                   << create_reg_operand(w[3]), create_imm_operand(w[4]),
                      create_imm_operand(at + SignExt(w[2], 16384)) >>)
          [] k = "ADD" ->
               ins("ADD", FALSE, FALSE, 0,
                   << create_reg_operand(w[3]), create_reg_operand(w[4]),
                      create_imm_operand(w[2]) >>)
          [] k = "ADR" ->
               ins("ADR", FALSE, TRUE, 0,
                   << create_reg_operand(w[3]),
                      create_imm_operand(at + SignExt(w[2], 524288)) >>)
          [] k = "ADRP" ->
               ins("ADRP", FALSE, TRUE, 0,
                   << create_reg_operand(w[3]),
                      create_imm_operand((PageOf(at) + SignExt(w[2], 2097152))
                                         * PAGE_WORDS) >>)
          [] k \in {"LDR", "STR"} ->
               ins(k, FALSE, FALSE, 0,
                   << create_reg_operand(w[2]), create_mem_operand(w[3], w[4]) >>)
          [] k = "LDR_LIT" ->
               ins("LDR_LIT", FALSE, TRUE, 0,
                   << create_reg_operand(w[3]),
                      create_imm_operand(at + SignExt(w[2], 524288)) >>)
          [] OTHER -> ins(k, FALSE, FALSE, 0, << >>)

\* how the relocation of one instruction (or pair) ends: the words emitted,
\* the instructions consumed, or an exception
Emitted(code, n) == [ok |-> TRUE, code |-> code, consumed |-> n]
Thrown == [ok |-> FALSE, code |-> << >>, consumed |-> 0]

\* ADD Xd, Xn(= rd of the ADRP), #imm
is_pair_add(next, adrp_dest_reg) ==
    /\ next.id = "ADD" /\ Len(next.operands) > 2
    /\ next.operands[2][1] = "REGISTER" /\ next.operands[2][2] = adrp_dest_reg
    /\ next.operands[3][1] = "IMMEDIATE"

\* LDR/STR Rt, [Xn(= rd of the ADRP), #disp]
is_pair_mem(next, adrp_dest_reg) ==
    /\ next.id \in {"LDR", "STR"} /\ Len(next.operands) > 1
    /\ next.operands[2][1] = "MEMORY" /\ next.operands[2][2] = adrp_dest_reg

\* the absolute load that replaces ADRP + ADD
pair_add_code(page_addr, next) ==
    gen_load_address(next.operands[1][2], page_addr + next.operands[3][2] \div WORD)

\* the absolute load and access that replace ADRP + LDR/STR
pair_mem_code(page_addr, next) ==
    gen_load_address(X16, page_addr + next.operands[2][3] \div WORD)
        \o << <<next.id, next.operands[1][2], X16, 0>> >>

\* the branch of relocate_trampoline that handles an ADRP
relocate_adrp(cur, ws, i, at) ==
    LET page_addr == cur.operands[2][2]
        adrp_dest_reg == cur.operands[1][2]
        next == Disassemble(ws[i + 1], at + i)
    IN  IF i + 1 <= Len(ws) /\ is_pair_add(next, adrp_dest_reg)
        THEN Emitted(pair_add_code(page_addr, next), 2)
        ELSE IF i + 1 <= Len(ws) /\ is_pair_mem(next, adrp_dest_reg)
        THEN Emitted(pair_mem_code(page_addr, next), 2)
        ELSE Emitted(gen_load_address(adrp_dest_reg, page_addr), 1)

\* the branch that handles the JUMP group: std::get<int64_t> on operand 0
\* throws when that operand holds a register; Assembler::b(cond) throws when
\* the target is out of range of the assembler's current address
relocate_jump(cur, asm_addr) ==
    IF cur.operands[1][1] # "IMMEDIATE" THEN Thrown
    ELSE LET target_addr == cur.operands[1][2]
         IN  IF cur.id = "B_COND"
             THEN (IF bcond_in_range(asm_addr, target_addr)
                   THEN Emitted(<< bcond_word(asm_addr, target_addr, cur.cond) >>, 1)
                   ELSE Thrown)
             ELSE Emitted(gen_load_address(X16, target_addr) \o << <<"BR", X16, 0>> >>, 1)

\* the first instruction is not pc-relative and the word before the target
\* is an ADRP: cases A and B
relocate_after_adrp(cur, w, prev) ==
    LET page_addr == prev.operands[2][2]
        adrp_dest_reg == prev.operands[1][2]
    IN  IF is_pair_add(cur, adrp_dest_reg)
        THEN Emitted(pair_add_code(page_addr, cur), 1)
        ELSE IF is_pair_mem(cur, adrp_dest_reg)
        THEN Emitted(pair_mem_code(page_addr, cur), 1)
        ELSE Emitted(<< w >>, 1)

\* one iteration of the loop of relocate_trampoline, on instruction i of ws
\* (the words at address at), with n words already emitted by an assembler
\* whose base address is tramp; prevw is the word just before the target
relocate_one(ws, i, at, prevw, tramp, n) ==
    LET cur == Disassemble(ws[i], at + i - 1)
        prev == Disassemble(prevw, at - 1)
    IN  IF cur.is_pc_relative
        THEN CASE cur.id = "ADRP" -> relocate_adrp(cur, ws, i, at)
               [] cur.id = "LDR_LIT" ->
                    Emitted(gen_load_address(X16, cur.operands[2][2])
                            \o << <<"LDR", cur.operands[1][2], X16, 0>> >>, 1)
               [] cur.jump -> relocate_jump(cur, tramp + n)
               [] cur.id = "ADR" ->
                    Emitted(gen_load_address(cur.operands[1][2], cur.operands[2][2]), 1)
               [] OTHER -> Emitted(<< ws[i] >>, 1)
        ELSE IF i = 1 /\ prev.id = "ADRP"
             THEN relocate_after_adrp(cur, ws[i], prev)
             ELSE Emitted(<< ws[i] >>, 1)

\* relocate_trampoline(target, trampoline_addr, backup_size, required_size)
\* on the instruction words ws of the target: [ok, backup_size, code]
RECURSIVE relocate_words(_, _, _, _, _, _, _, _)
relocate_words(ws, i, at, prevw, tramp, backup, code, required) ==
    IF i > Len(ws) THEN [ok |-> TRUE, backup_size |-> backup, code |-> code]
    ELSE LET r == relocate_one(ws, i, at, prevw, tramp, Len(code))
             backup2 == backup + r.consumed * WORD
         IN  IF ~r.ok THEN [ok |-> FALSE, backup_size |-> backup, code |-> code]
             ELSE IF backup2 >= required
                  THEN [ok |-> TRUE, backup_size |-> backup2, code |-> code \o r.code]
                  ELSE relocate_words(ws, i + r.consumed, at, prevw, tramp,
                                      backup2, code \o r.code, required)

\* the trampoline Hook::Hook builds from a relocation: the relocated words
\* followed by the jump back to target + backup_size
trampoline_code(r, at) == r.code \o gen_abs_jump(at + r.backup_size \div WORD)

\* ------------------------------------------------------------------------
\* The processor: registers r, data memory m, the Z flag, and pc = 0 while
\* it runs straight on or the address a taken branch leads to
\* ------------------------------------------------------------------------
Load(m, a) == IF a \in DOMAIN m THEN m[a] ELSE -1
Store(m, a, v) == IF a \in DOMAIN m THEN [m EXCEPT ![a] = v] ELSE m

\* the part of a word address a 16-bit chunk of its byte address stands for
ChunkValue(c, shift) ==
    CASE shift = 0 -> c \div 4
      [] shift = 16 -> c * 16384
      [] OTHER -> c * 1073741824
\* the same part of the value v
ChunkOf(v, shift) ==
    CASE shift = 0 -> v % 16384
      [] shift = 16 -> ((v \div 16384) % 65536) * 16384
      [] shift = 32 -> (v \div 1073741824) * 1073741824
      [] OTHER -> 0

MovReg(w) == IF Len(w) > 3 THEN w[4] ELSE X16

exec_word(cpu, w, at) ==
    LET k == w[1]
        jump(taken, dest) == IF taken THEN [cpu EXCEPT !.pc = dest] ELSE cpu
    IN  CASE k = "MOVZ" -> [cpu EXCEPT !.r[MovReg(w)] = ChunkValue(w[2], w[3])]
          [] k = "MOVK" ->
               [cpu EXCEPT !.r[MovReg(w)] =
                    cpu.r[MovReg(w)] - ChunkOf(cpu.r[MovReg(w)], w[3])
                        + ChunkValue(w[2], w[3])]
          [] k = "ADRP" ->
               [cpu EXCEPT !.r[w[3]] = (PageOf(at) + SignExt(w[2], 2097152)) * PAGE_WORDS]
          [] k = "ADR" -> [cpu EXCEPT !.r[w[3]] = at + SignExt(w[2], 524288)]
          [] k = "ADD" -> [cpu EXCEPT !.r[w[3]] = cpu.r[w[4]] + w[2] \div WORD]
          [] k = "LDR_LIT" ->
               [cpu EXCEPT !.r[w[3]] = Load(cpu.m, at + SignExt(w[2], 524288))]
          [] k = "LDR" ->
               [cpu EXCEPT !.r[w[2]] = Load(cpu.m, cpu.r[w[3]] + w[4] \div WORD)]
          [] k = "STR" ->
               [cpu EXCEPT !.m = Store(cpu.m, cpu.r[w[3]] + w[4] \div WORD, cpu.r[w[2]])]
          [] k = "BCOND" ->
               jump((w[3] = COND_EQ) = cpu.z, at + SignExt(w[2], 524288))
          [] k = "CBZ" -> jump(cpu.r[w[3]] = 0, at + SignExt(w[2], 524288))
          [] k = "CBNZ" -> jump(cpu.r[w[3]] # 0, at + SignExt(w[2], 524288))
          [] k = "TBZ" -> jump(cpu.r[w[3]] % 2 = 0, at + SignExt(w[2], 16384))
          [] k = "TBNZ" -> jump(cpu.r[w[3]] % 2 = 1, at + SignExt(w[2], 16384))
          [] k = "BR" -> [cpu EXCEPT !.pc = cpu.r[w[2]]]
          [] OTHER -> cpu

\* run the words of code, which lie at address base, from word i on; the
\* processor leaves them by a taken branch or past the last word
RECURSIVE run_code(_, _, _, _)
run_code(cpu, code, base, i) ==
    IF cpu.pc # 0 THEN cpu
    ELSE IF i > Len(code) THEN [cpu EXCEPT !.pc = base + Len(code)]
    ELSE run_code(exec_word(cpu, code[i], base + i - 1), code, base, i + 1)

\* no call of relocate_trampoline on its own has been made
NoReloc ==
    [at |-> NULL, ws |-> << >>, prev |-> NopWord, required |-> 0,
     cpu |-> [r |-> [x \in Regs |-> 0], m |-> << >>, z |-> FALSE, pc |-> 0],
     out |-> [ok |-> FALSE, backup_size |-> 0, code |-> << >>],
     done |-> FALSE]

\* ------------------------------------------------------------------------
\* HookInfo, HookEntry, Hook
\* ------------------------------------------------------------------------
NewHookInfo ==
    [target_address |-> NULL, entries |-> << >>, original_code |-> << >>,
     trampoline |-> NULL, backup_size |-> 0, detour_stub |-> NULL,
     detour_stub_size |-> 0, patch_size_at_target |-> 0,
     target_patch_code |-> << >>]

HookEntry(owner, callback, call_next, is_enabled) ==
    [owner |-> owner, callback |-> callback, call_next |-> call_next,
     is_enabled |-> is_enabled]

\* Hook::reset : the fields of an invalid handle
ResetHook ==
    [target_address_ |-> NULL, callback_ |-> NULL, original_func_ |-> NULL,
     is_enabled_ |-> FALSE]

is_valid(hk) == hk.target_address_ # NULL

\* index of the entry owned by h in a chain, 0 when there is none (find_if)
RECURSIVE find_owner(_, _, _)
find_owner(entries, h, i) ==
    IF i > Len(entries) THEN 0
    ELSE IF entries[i].owner = h THEN i ELSE find_owner(entries, h, i + 1)

\* the front entry whatever its flag
find_front(entries, i) == IF i > Len(entries) THEN 0 ELSE i
\* index of the first enabled entry of a chain, 0 when there is none
RECURSIVE find_enabled(_, _)
find_enabled(entries, i) ==
    IF i > Len(entries) THEN 0
    ELSE IF entries[i].is_enabled THEN i ELSE find_enabled(entries, i + 1)

RemoveAt(s, i) == SubSeq(s, 1, i - 1) \o SubSeq(s, i + 1, Len(s))

\* free_executable_memory: munmap of a live mapping
free_executable_memory(x, addr) ==
    IF addr = NULL THEN x ELSE [a \in (DOMAIN x) \ {addr} |-> x[a]]

\* mmap of a fresh (zero-filled) executable mapping
map_executable_memory(x, addr) ==
    IF addr = NULL THEN x ELSE (addr :> << >>) @@ x

\* choose_patch_sequence: B, else ADRP+ADD+BR, else the absolute jump
choose_patch_sequence(target, dest) ==
    IF b_in_range(target, dest) THEN << b_word(target, dest) >>
    ELSE IF adrp_in_range(target, dest)
         THEN << adrp_word(target, dest, 16),
                 add_imm_word(16, (dest % PAGE_WORDS) * WORD),
                 <<"BR", 16, 0>> >>
         ELSE gen_abs_jump(dest)

\* The world the operations act on is a record
\*   [g: the registry g_hooks, m: target memory, x: executable mappings,
\*    hd: the Hook objects]

\* update_detour_stub(info, detour_addr)
update_detour_stub(w, t, dest) ==
    IF w.g[t].detour_stub = NULL THEN w
    ELSE [w EXCEPT !.x[w.g[t].detour_stub] = gen_abs_jump(dest),
                   !.g[t].detour_stub_size = ABS_JUMP_SIZE]

\* patch_target_with_code / patch_target / restore_target, as the words
\* handed to atomic_patch
patch_target_code(dest) == gen_abs_jump(dest)
\* a restore that puts back only the head word
restore_head_only(info) == SubSeq(info.original_code, 1, 1)
restore_target_code(info) ==
    SubSeq(info.original_code, 1, info.backup_size \div WORD)

apply_patch(w, t, code) == [w EXCEPT !.m[t] = atomic_patch(w.m[t], code)]

\* ------------------------------------------------------------------------
\* Hook::Hook(target, callback, enable_now), phase by phase.
\* a = [h, t, cb, en, stub, tramp]: the handle being constructed, the
\* arguments, and what the two mmap calls of this install return.
\* ------------------------------------------------------------------------
\* g_hooks.find / g_hooks[target] = make_unique<HookInfo>(); the first
\* assignments under the locks
inst_lookup(w, a) ==
    LET g1 == IF a.t \in DOMAIN w.g THEN w.g ELSE (a.t :> NewHookInfo) @@ w.g
    IN  [w EXCEPT !.g = [g1 EXCEPT ![a.t].target_address = a.t],
                  !.hd[a.h].target_address_ = a.t,
                  !.hd[a.h].callback_ = a.cb]

\* allocate the detour stub once; choose and cache the patch sequence
inst_alloc(w, a) ==
    LET info == w.g[a.t]
        stub == IF info.detour_stub = NULL THEN a.stub ELSE info.detour_stub
        x1 == IF info.detour_stub = NULL THEN map_executable_memory(w.x, a.stub)
              ELSE w.x
        choose == info.target_patch_code = << >> \/ info.patch_size_at_target = 0
        code == IF choose /\ stub # NULL
                THEN choose_patch_sequence(TargetAddr(a.t), stub)
                ELSE info.target_patch_code
        size == IF choose
                THEN (IF stub # NULL THEN Len(code) * WORD ELSE ABS_JUMP_SIZE)
                ELSE info.patch_size_at_target
    IN  [w EXCEPT !.x = x1,
                  !.g[a.t].detour_stub = stub,
                  !.g[a.t].target_patch_code = code,
                  !.g[a.t].patch_size_at_target = size]

\* a relocation that stops after the first instruction
inst_reloc_one(w, a) ==
    relocate_trampoline(a.t, w.m[a.t], 0, WORD)

\* the relocation this install performs (only when there is no trampoline)
inst_reloc(w, a) ==
    relocate_trampoline(a.t, w.m[a.t], 0, w.g[a.t].patch_size_at_target)

\* does building the trampoline throw?
inst_tramp_throws(w, a) ==
    /\ w.g[a.t].trampoline = NULL
    /\ (~inst_reloc(w, a).ok \/ a.tramp = NULL)

\* the world when building the trampoline has thrown: backup_size was
\* written through the reference, nothing else
inst_tramp_thrown(w, a) ==
    [w EXCEPT !.g[a.t].backup_size = inst_reloc(w, a).backup_size]

\* build the trampoline once: relocated prefix, jump back, saved original
inst_tramp(w, a) ==
    IF w.g[a.t].trampoline # NULL THEN w
    ELSE LET r == inst_reloc(w, a)
             body == r.code \o gen_abs_jump(TargetAddr(a.t) + r.backup_size \div WORD)
         IN  [w EXCEPT !.g[a.t].backup_size = r.backup_size,
                       !.g[a.t].trampoline = a.tramp,
                       !.g[a.t].original_code =
                            SubSeq(w.m[a.t], 1, r.backup_size \div WORD),
                       !.x = (a.tramp :> body) @@ w.x]

\* write the detour stub: the callback when enabling now, else the trampoline
inst_stub(w, a) ==
    update_detour_stub(w, a.t, IF a.en THEN a.cb ELSE w.g[a.t].trampoline)

\* compute call_next and push the entry at the front of the chain
inst_chain(w, a) ==
    LET info == w.g[a.t]
        next_func_to_call ==
            IF info.entries = << >> THEN info.trampoline
            ELSE info.entries[1].callback
    IN  [w EXCEPT !.hd[a.h].original_func_ = next_func_to_call,
                  !.g[a.t].entries =
                       << HookEntry(a.h, a.cb, next_func_to_call, a.en) >>
                       \o info.entries]

\* the words install hands to atomic_patch (none when enable_now is false)
inst_patch_code(w, a) ==
    IF ~a.en THEN << >>
    ELSE IF w.g[a.t].detour_stub # NULL /\ w.g[a.t].target_patch_code # << >>
         THEN w.g[a.t].target_patch_code
         ELSE patch_target_code(a.cb)

inst_finish(w, a) == [w EXCEPT !.hd[a.h].is_enabled_ = a.en]

\* what a failed construction leaves of the Hook object: nothing
inst_abandon(w, a) == [w EXCEPT !.hd[a.h] = ResetHook]

\* the whole constructor
HookCtorThrows(w, a) == inst_tramp_throws(inst_alloc(inst_lookup(w, a), a), a)
HookCtor(w, a) ==
    LET w2 == inst_alloc(inst_lookup(w, a), a)
    IN  IF inst_tramp_throws(w2, a)
        THEN inst_abandon(inst_tramp_thrown(w2, a), a)
        ELSE LET w5 == inst_chain(inst_stub(inst_tramp(w2, a), a), a)
             IN  inst_finish(apply_patch(w5, a.t, inst_patch_code(w5, a)), a)

\* ------------------------------------------------------------------------
\* Re-routing shared by do_unhook, enable, disable and set_detour: the
\* detour stub is pointed at dest and the target is patched, through the
\* cached sequence when there is a stub, else by an absolute jump to dest.
\* ------------------------------------------------------------------------
route_patch_code(w, t, dest) ==
    IF w.g[t].detour_stub # NULL /\ w.g[t].target_patch_code # << >>
    THEN w.g[t].target_patch_code
    ELSE patch_target_code(dest)

\* ------------------------------------------------------------------------
\* Hook::do_unhook, for a valid handle h whose target is in the registry
\* ------------------------------------------------------------------------
\* find the entry, re-link the previous entry's call_next, erase the entry
unh_chain(w, h) ==
    LET t == w.hd[h].target_address_
        es == w.g[t].entries
        i == find_owner(es, h, 1)
        relinked ==
            IF i > 1
            THEN [es EXCEPT ![i - 1].call_next =
                      IF i < Len(es) THEN es[i + 1].callback
                      ELSE w.g[t].trampoline]
            ELSE es
    IN  IF i = 0 THEN w ELSE [w EXCEPT !.g[t].entries = RemoveAt(relinked, i)]

\* the chain is empty after the erase
unh_empties(w, h) == w.g[w.hd[h].target_address_].entries = << >>

\* the stub update of the non-empty branch
unh_stub(w, h) ==
    LET t == w.hd[h].target_address_
    IN  update_detour_stub(w, t, w.g[t].entries[1].callback)

\* the words do_unhook hands to atomic_patch
unh_patch_code(w, h) ==
    LET t == w.hd[h].target_address_
    IN  IF unh_empties(w, h) THEN restore_target_code(w.g[t])
        ELSE route_patch_code(w, t, w.g[t].entries[1].callback)

\* free the mappings and erase the HookInfo (empty branch, after restore)
unh_free(w, h) ==
    LET t == w.hd[h].target_address_
        info == w.g[t]
    IN  [w EXCEPT !.x = free_executable_memory(
                            free_executable_memory(w.x, info.trampoline),
                            info.detour_stub),
                  !.g = [k \in (DOMAIN w.g) \ {t} |-> w.g[k]]]

hook_reset(w, h) == [w EXCEPT !.hd[h] = ResetHook]

do_unhook(w, h) ==
    IF ~is_valid(w.hd[h]) THEN w
    ELSE IF w.hd[h].target_address_ \notin DOMAIN w.g THEN hook_reset(w, h)
    ELSE LET t == w.hd[h].target_address_
             w1 == unh_chain(w, h)
         IN  IF unh_empties(w1, h)
             THEN hook_reset(unh_free(apply_patch(w1, t, unh_patch_code(w1, h)), h), h)
             ELSE LET w2 == unh_stub(w1, h)
                  IN  hook_reset(apply_patch(w2, t, unh_patch_code(w2, h)), h)

\* ------------------------------------------------------------------------
\* Hook::enable / Hook::disable
\* ------------------------------------------------------------------------
\* the early returns before the locks are taken
enable_refused(w, h) ==
    \/ ~is_valid(w.hd[h]) \/ w.hd[h].is_enabled_
    \/ w.hd[h].callback_ = NULL
    \/ w.hd[h].target_address_ \notin DOMAIN w.g
disable_refused(w, h) ==
    \/ ~is_valid(w.hd[h]) \/ ~w.hd[h].is_enabled_
    \/ w.hd[h].target_address_ \notin DOMAIN w.g

\* set the entry's flag and the handle's flag
flag_set(w, h, v) ==
    LET t == w.hd[h].target_address_
        i == find_owner(w.g[t].entries, h, 1)
        w1 == IF i = 0 THEN w ELSE [w EXCEPT !.g[t].entries[i].is_enabled = v]
    IN  [w1 EXCEPT !.hd[h].is_enabled_ = v]

\* re-patch to the first enabled hook: the stub update
flag_stub(w, h) ==
    LET t == w.hd[h].target_address_
        fe == find_enabled(w.g[t].entries, 1)
    IN  IF fe = 0 THEN w ELSE update_detour_stub(w, t, w.g[t].entries[fe].callback)

\* re-patch to the first enabled hook: the words handed to atomic_patch
flag_patch_code(w, h) ==
    LET t == w.hd[h].target_address_
        fe == find_enabled(w.g[t].entries, 1)
    IN  IF fe = 0 THEN restore_target_code(w.g[t])
        ELSE route_patch_code(w, t, w.g[t].entries[fe].callback)

set_enabled(w, h, v) ==
    LET w2 == flag_stub(flag_set(w, h, v), h)
    IN  apply_patch(w2, w.hd[h].target_address_, flag_patch_code(w2, h))

enable(w, h) == IF enable_refused(w, h) THEN w ELSE set_enabled(w, h, TRUE)
disable(w, h) == IF disable_refused(w, h) THEN w ELSE set_enabled(w, h, FALSE)

\* what enable() / disable() return: false on the early returns, else true
enable_result(w, h) == ~enable_refused(w, h)
disable_result(w, h) == ~disable_refused(w, h)

\* ------------------------------------------------------------------------
\* Hook::set_detour
\* ------------------------------------------------------------------------
sd_refused(w, h) ==
    \/ ~is_valid(w.hd[h])
    \/ w.hd[h].target_address_ \notin DOMAIN w.g
    \/ find_owner(w.g[w.hd[h].target_address_].entries, h, 1) = 0

\* store the callback in the entry and in the handle
sd_store(w, h, cb) ==
    LET t == w.hd[h].target_address_
        i == find_owner(w.g[t].entries, h, 1)
    IN  [w EXCEPT !.g[t].entries[i].callback = cb, !.hd[h].callback_ = cb]

\* "if this is the currently active hook"
sd_active(w, h) ==
    w.hd[h].is_enabled_ /\ w.g[w.hd[h].target_address_].entries[1].owner = h

sd_stub(w, h, cb) ==
    IF sd_active(w, h) THEN update_detour_stub(w, w.hd[h].target_address_, cb) ELSE w

sd_patch_code(w, h, cb) ==
    IF sd_active(w, h) THEN route_patch_code(w, w.hd[h].target_address_, cb)
    ELSE << >>

set_detour(w, h, cb) ==
    IF sd_refused(w, h) THEN w
    ELSE LET w2 == sd_stub(sd_store(w, h, cb), h, cb)
         IN  apply_patch(w2, w.hd[h].target_address_, sd_patch_code(w2, h, cb))

\* ------------------------------------------------------------------------
\* Hook::Hook(Hook&&) and Hook::operator=(Hook&&)
\* ------------------------------------------------------------------------
\* the member initialisers: the new handle takes the fields of the old one
move_fields(w, dst, src) == [w EXCEPT !.hd[dst] = w.hd[src]]

\* an owner that is left pointing at the moved-from handle
keep_owner(w, dst, src) == w
\* the entry whose owner is the moved-from handle gets the new handle
rewrite_owner(w, dst, src) ==
    LET t == w.hd[dst].target_address_
    IN  IF t \notin DOMAIN w.g THEN w
        ELSE LET i == find_owner(w.g[t].entries, src, 1)
             IN  IF i = 0 THEN w ELSE [w EXCEPT !.g[t].entries[i].owner = dst]

move_construct(w, dst, src) ==
    LET w1 == move_fields(w, dst, src)
    IN  IF ~is_valid(w1.hd[dst]) THEN w1
        ELSE hook_reset(rewrite_owner(w1, dst, src), src)

move_assign(w, dst, src) ==
    LET w1 == move_fields(do_unhook(w, dst), dst, src)
    IN  IF ~is_valid(w1.hd[dst]) THEN hook_reset(w1, src)
        ELSE hook_reset(rewrite_owner(w1, dst, src), src)

\* ========================================================================
\* VMT hooks (vmt_hook.cpp)
\* ========================================================================
MaxVmHooks == 3
VmtAddress == 4096
VmIndexes == {0, 1}
\* the method the table holds at index before any hook
VmOriginal(index) == TargetAddr(1) + index
\* the hook function of the k-th VmHook object; like hook_a and hook_b of
\* the tests it calls get_original() of its own handle
VmFunction(k) == Cb(k)

NewVmHook(vmt_entry_address, hook_function, original_function) ==
    [vmt_entry_address_ |-> vmt_entry_address, hook_function_ |-> hook_function,
     original_function_ |-> original_function, is_enabled_ |-> FALSE]

\* VmHook::enable
vm_enable(v, k) ==
    LET h == v.hooks[k]
    IN  IF h.vmt_entry_address_ = NULL \/ h.is_enabled_ THEN v
        ELSE [v EXCEPT !.table[h.vmt_entry_address_] = h.hook_function_,
                       !.hooks[k].is_enabled_ = TRUE]

\* VmHook::disable
vm_disable(v, k) ==
    LET h == v.hooks[k]
    IN  IF h.vmt_entry_address_ = NULL \/ ~h.is_enabled_ THEN v
        ELSE [v EXCEPT !.table[h.vmt_entry_address_] = h.original_function_,
                       !.hooks[k].is_enabled_ = FALSE]

\* VmHook::unhook (also what the destructor runs)
vm_unhook(v, k) ==
    LET v2 == IF v.hooks[k].is_enabled_ THEN vm_disable(v, k) ELSE v
    IN  [v2 EXCEPT !.hooks[k].vmt_entry_address_ = NULL,
                   !.hooks[k].hook_function_ = NULL,
                   !.hooks[k].original_function_ = NULL]

\* a hook_method that captures the method the class was compiled with
capture_first(v, index, hook_function) ==
    LET vmt_entry_address == VmtAddress + index
        v2 == [v EXCEPT !.hooks = Append(v.hooks,
                   NewVmHook(vmt_entry_address, hook_function, VmOriginal(index)))]
    IN  vm_enable(v2, Len(v2.hooks))

\* VmtHook::hook_method
hook_method(v, index, hook_function) ==
    LET vmt_entry_address == VmtAddress + index
        original_function == v.table[vmt_entry_address]
        v2 == [v EXCEPT !.hooks = Append(v.hooks,
                   NewVmHook(vmt_entry_address, hook_function, original_function))]
    IN  vm_enable(v2, Len(v2.hooks))

\* the hooks of the entry at address a that are not unhooked, oldest first
RECURSIVE RemainingFrom(_, _, _)
RemainingFrom(v, a, k) ==
    IF k > Len(v.hooks) THEN << >>
    ELSE (IF v.hooks[k].vmt_entry_address_ = a THEN << k >> ELSE << >>)
         \o RemainingFrom(v, a, k + 1)
Remaining(v, a) == RemainingFrom(v, a, 1)

\* is hook k the most recently installed remaining hook of its entry?
IsNewest(v, k) ==
    LET a == v.hooks[k].vmt_entry_address_
    IN  a # NULL /\ Remaining(v, a)[Len(Remaining(v, a))] = k

\* a fresh object whose table holds the original methods
NoVmt ==
    [table |-> [a \in {VmtAddress + i : i \in VmIndexes} |-> VmOriginal(a - VmtAddress)],
     hooks |-> << >>,
     stacked |-> TRUE]

\* ------------------------------------------------------------------------
\* memory::atomic_patch step by step (memory.cpp).  A call is
\* [code, m, prot, pc, log, result]: the patch, the words at the address, the
\* protection of their page, the position in the function, the steps taken
\* so far and the value returned.
\* ------------------------------------------------------------------------
NoAtomic ==
    [code |-> << >>, m |-> << >>, prot |-> "r-x", pc |-> "none", log |-> << >>,
     result |-> FALSE]

\* the step that follows the first protect()
after_protect(code, ok) ==
    IF ~ok THEN "done" ELSE IF Len(code) > 1 THEN "tail" ELSE "head"

\* ------------------------------------------------------------------------
\* The range checks of the encoders (assembler.cpp).  The displacement d
\* is in bytes, for adrp in pages; size is the register size in bytes.
\* ------------------------------------------------------------------------
Encoders ==
    {"b", "b_cond", "cbz", "cbnz", "ldr_literal", "adr", "adrp", "ldur", "stur",
     "ldp", "stp"}

\* the encoder does not throw
encoder_accepts(op, d, size) ==
    CASE op = "b" -> ~(d < -134217728 \/ d > 134217724)
      [] op = "b_cond" -> ~(d < -524288 \/ d > 524284)
      [] op \in {"cbz", "cbnz"} -> ~(d < 0 \/ d > 524284)
      [] op \in {"ldr_literal", "adr"} -> ~(d < -1048576 \/ d > 1048575)
      [] op = "adrp" -> ~(d < ADRP_MIN_PAGES \/ d > ADRP_MAX_PAGES)
      [] op \in {"ldur", "stur"} -> ~(d < -256 \/ d > 255)
      [] op \in {"ldp", "stp"} -> ~(d < -256 * size \/ d > 255 * size \/ d % size # 0)

\* the immediate field of the emitted instruction
encoder_imm(op, d, size) ==
    CASE op = "b" -> Mod(d \div 4, 67108864)
      [] op \in {"b_cond", "cbz", "cbnz", "ldr_literal"} -> Mod(d \div 4, 524288)
      [] op \in {"adr", "adrp"} -> Mod(d, 2097152)
      [] op \in {"ldur", "stur"} -> Mod(d, 512)
      [] op \in {"ldp", "stp"} -> Mod(d \div size, 128)

NoEncode == [op |-> "none", d |-> 0, size |-> 0, done |-> FALSE, ok |-> FALSE, imm |-> 0]

\* ========================================================================
\* PLT hooks (plthook.cpp).  A Hook is attached to a parsed ELF image whose
\* PLT relocation table is Relocations; got is the memory of the GOT.
\* ========================================================================
R_AARCH64_JUMP_SLOT_VAL == 1026

\* the PLT relocations of the image: [type, name, r_offset]
Relocations ==
    << [type |-> 1025, name |-> "environ", r_offset |-> 8192],
       [type |-> R_AARCH64_JUMP_SLOT_VAL, name |-> "puts", r_offset |-> 8194],
       [type |-> R_AARCH64_JUMP_SLOT_VAL, name |-> "free", r_offset |-> 8196] >>
GotAddresses == {Relocations[i].r_offset : i \in 1..Len(Relocations)}
PltSymbols == {"", "environ", "puts", "free", "absent"}
Replacements == {NULL, Cb(1), Cb(2)}

\* the loop over the relocation table: the index of the first JUMP_SLOT
\* relocation of the symbol, 0 when there is none
RECURSIVE find_jump_slot(_, _)
find_jump_slot(symbol, i) ==
    IF i > Len(Relocations) THEN 0
    ELSE IF Relocations[i].type # R_AARCH64_JUMP_SLOT_VAL THEN find_jump_slot(symbol, i + 1)
    ELSE IF Relocations[i].name = symbol THEN i
    ELSE find_jump_slot(symbol, i + 1)

PltEntry(symbol, got_addr, original, replacement) ==
    [symbol |-> symbol, got_addr |-> got_addr, original |-> original,
     replacement |-> replacement]

\* a write that misses the GOT entry
write_got_dropped(p, got_addr, value, can_write) == p
\* Hook::write_got : the value goes to the entry when the page can be made
\* writable; the function returns can_write
write_got(p, got_addr, value, can_write) ==
    IF can_write THEN [p EXCEPT !.got[got_addr] = value] ELSE p

\* what a call leaves in ret: the returned bool and *original_out
PltReturn(p, op, symbol, ok, original) ==
    [p EXCEPT !.ret = [op |-> op, symbol |-> symbol, ok |-> ok, original |-> original]]

\* the branch for a symbol that has no entry yet: both relocation forms run
\* the same loop
hook_new(p, symbol, replacement, can_write) ==
    IF p.rel_type \notin {"DT_RELA", "DT_REL"} THEN PltReturn(p, "hook", symbol, FALSE, NULL)
    ELSE LET i == find_jump_slot(symbol, 1)
         IN  IF i = 0 \/ ~can_write THEN PltReturn(p, "hook", symbol, FALSE, NULL)
             ELSE LET got_addr == Relocations[i].r_offset
                      original == p.got[got_addr]
                      p1 == write_got(p, got_addr, replacement, can_write)
                      e == PltEntry(symbol, got_addr, original, replacement)
                      p2 == [p1 EXCEPT !.entries_ =
                                [s \in DOMAIN p.entries_ \cup {symbol} |->
                                    IF s = symbol THEN e ELSE p.entries_[s]]]
                  IN  PltReturn(p2, "hook", symbol, TRUE, original)

\* an existing entry whose original is captured again from the GOT
hook_recapture(p, symbol, replacement, can_write) ==
    LET e == p.entries_[symbol]
        p1 == write_got(p, e.got_addr, replacement, can_write)
        p2 == [p1 EXCEPT !.entries_[symbol].replacement = replacement,
                         !.entries_[symbol].original = p.got[e.got_addr]]
    IN  PltReturn(p2, "hook_again", symbol, TRUE, p.got[e.got_addr])
\* the branch for a symbol that already has an entry
hook_existing(p, symbol, replacement, can_write) ==
    IF ~can_write THEN PltReturn(p, "hook_again", symbol, FALSE, NULL)
    ELSE LET e == p.entries_[symbol]
             p1 == write_got(p, e.got_addr, replacement, can_write)
             p2 == [p1 EXCEPT !.entries_[symbol].replacement = replacement]
         IN  PltReturn(p2, "hook_again", symbol, TRUE, e.original)

hook_symbol(p, symbol, replacement, can_write) ==
    IF symbol = "" \/ replacement = NULL THEN PltReturn(p, "hook", symbol, FALSE, NULL)
    ELSE IF symbol \in DOMAIN p.entries_ THEN hook_existing(p, symbol, replacement, can_write)
    ELSE hook_new(p, symbol, replacement, can_write)

unhook_symbol(p, symbol, can_write) ==
    IF symbol \notin DOMAIN p.entries_ THEN PltReturn(p, "unhook", symbol, FALSE, NULL)
    ELSE IF ~can_write THEN PltReturn(p, "unhook", symbol, FALSE, NULL)
    ELSE LET e == p.entries_[symbol]
             p1 == write_got(p, e.got_addr, e.original, can_write)
             p2 == [p1 EXCEPT !.entries_ =
                       [s \in DOMAIN p.entries_ \ {symbol} |-> p.entries_[s]]]
         IN  PltReturn(p2, "unhook", symbol, TRUE, NULL)

NoPltReturn == [op |-> "none", symbol |-> "", ok |-> FALSE, original |-> NULL]
NoPlt ==
    [got |-> [a \in {} |-> NULL], image_got |-> [a \in {} |-> NULL],
     entries_ |-> [s \in {} |-> NULL], rel_type |-> "DT_RELA",
     mutex_ |-> FALSE, pc |-> "none", todo |-> {}, ret |-> NoPltReturn]

NoStub ==
    [addr |-> NULL, words |-> << >>, old |-> NULL, new |-> NULL, pending |-> {},
     at |-> 0, seen |-> << >>, to |-> NULL]

\* ========================================================================
\* State
\* ========================================================================
VARIABLES
    g_hooks,        \* the registry: target -> HookInfo (a finite map)
    mem,            \* the code at each target, MemWords words
    maps,           \* live executable mappings: base address -> words
    handles,        \* the fields of each Hook object
    alive,          \* the Hook objects constructed and not yet destroyed
    g_hooks_mutex,  \* the thread holding the registry mutex, 0 when free
    info_mutex,     \* per target: the thread holding HookInfo::info_mutex
    thr,            \* per thread: the call it is executing and where it is
    stw,            \* the thread that suspended all the others, 0 when none
    lin,            \* the world had every call so far run in one piece
    mid,            \* the fields of the MidHook object
    mid_mem,        \* the code at the mid-hook target
    plan,           \* a call of choose_patch_sequence: arguments and result
    rel,            \* a call of relocate_trampoline: arguments and result
    vmt,            \* the vtable, the VmHook objects, and whether they were stacked
    ap,             \* a call of memory::atomic_patch, step by step
    enc,            \* a call of an encoder of the assembler
    plt,            \* a PLT Hook, the GOT it patches and its last return value
    ds              \* a detour stub, its update and a thread executing it

hvars == <<g_hooks, mem, maps, handles, alive>>
cvars == <<g_hooks_mutex, info_mutex, thr, stw, lin>>
mvars == <<mid, mid_mem>>
\* the calls of the engine's helpers made on their own
qvars == <<ap, enc, plt, ds>>
pvars == <<plan, rel, vmt, qvars>>
vars == <<g_hooks, mem, maps, handles, alive, g_hooks_mutex, info_mutex, thr,
          stw, lin, mid, mid_mem, plan, rel, vmt, ap, enc, plt, ds>>

World == [g |-> g_hooks, m |-> mem, x |-> maps, hd |-> handles]

SetWorld(w) ==
    /\ g_hooks' = w.g
    /\ mem' = w.m
    /\ maps' = w.x
    /\ handles' = w.hd

NoMap == [k \in {} |-> << >>]

\* a thread that is executing no call of the library
IdleThread ==
    [pc |-> "idle", op |-> "none", h |-> 0, t |-> 0, cb |-> NULL, en |-> FALSE,
     stub |-> NULL, tramp |-> NULL, code |-> << >>, stores |-> << >>]

\* MidHook::reset : the fields of an invalid MidHook
ResetMidHook ==
    [target_address_ |-> NULL, callback_ |-> NULL, original_instructions_ |-> << >>,
     detour_ |-> NULL, is_enabled_ |-> FALSE]

\* the mid-hook target: an address inside a function, and the code there
MidTargetAddr == TargetBase(2) + 2048
MidDetour == 3 * 4096 + 1024
MidOriginalCode == [i \in 1..MemWords |-> OrigWord(MidTargetAddr, i)]

\* no helper call has been made
NoPlan == [target |-> NULL, dest |-> NULL, code |-> << >>, done |-> FALSE]

\* the library after loading: an empty registry, unhooked targets
InitEngine ==
    /\ g_hooks = [k \in {} |-> NewHookInfo]
    /\ mem = [t \in MemTargets |-> OriginalCode(t)]
    /\ maps = NoMap
    /\ handles = [h \in AllHandles |-> ResetHook]
    /\ alive = {}
    /\ g_hooks_mutex = 0
    /\ info_mutex = [t \in MemTargets |-> 0]
    /\ thr = [k \in Threads |-> IdleThread]
    /\ stw = 0
    /\ lin = [g |-> [k \in {} |-> NewHookInfo],
              m |-> [t \in MemTargets |-> OriginalCode(t)],
              x |-> NoMap,
              hd |-> [h \in AllHandles |-> ResetHook]]
    /\ mid = ResetMidHook
    /\ mid_mem = MidOriginalCode
    /\ vmt = NoVmt

\* no helper is being called on its own
InitIdle ==
    /\ ap = NoAtomic
    /\ enc = NoEncode
    /\ plt = NoPlt
    /\ ds = NoStub

Init ==
    /\ InitEngine
    /\ InitIdle
    /\ plan = NoPlan
    /\ rel = NoReloc

\* the mmap results an install on t can consume in the current state
StubResults(t) ==
    IF t \in DOMAIN g_hooks /\ g_hooks[t].detour_stub # NULL THEN {NULL}
    ELSE StubChoices(t)
TrampResults(t) ==
    IF t \in DOMAIN g_hooks /\ g_hooks[t].trampoline # NULL THEN {NULL}
    ELSE TrampChoices(t)

\* ------------------------------------------------------------------------
\* The API, one action per call (sequential callers)
\* ------------------------------------------------------------------------
\* Hook::Hook with accepted arguments; it either returns or throws
Install(h, t, cb, en, stub, tramp) ==
    LET a == [h |-> h, t |-> t, cb |-> cb, en |-> en, stub |-> stub, tramp |-> tramp]
    IN  /\ h \notin alive
        /\ \A k \in Handles : k < h => k \in alive
        /\ ~(cb = NULL /\ en)
        /\ SetWorld(HookCtor(World, a))
        /\ alive' = IF HookCtorThrows(World, a) THEN alive ELSE alive \cup {h}
        /\ UNCHANGED <<pvars, cvars, mvars>>

\* Hook::unhook on a valid handle
Unhook(h) ==
    /\ h \in alive
    /\ is_valid(handles[h])
    /\ SetWorld(do_unhook(World, h))
    /\ UNCHANGED <<pvars, alive, cvars, mvars>>

\* Hook::~Hook
Destroy(h) ==
    /\ h \in alive
    /\ SetWorld(do_unhook(World, h))
    /\ alive' = alive \ {h}
    /\ UNCHANGED <<pvars, cvars, mvars>>

Enable(h) ==
    /\ h \in alive
    /\ SetWorld(enable(World, h))
    /\ UNCHANGED <<pvars, alive, cvars, mvars>>

Disable(h) ==
    /\ h \in alive
    /\ SetWorld(disable(World, h))
    /\ UNCHANGED <<pvars, alive, cvars, mvars>>

SetDetour(h, cb) ==
    /\ h \in alive
    /\ SetWorld(set_detour(World, h, cb))
    /\ UNCHANGED <<pvars, alive, cvars, mvars>>

InstallAny ==
    \E h \in Handles, t \in SeqTargets, cb \in Callbacks, en \in BOOLEAN :
        \E stub \in StubResults(t), tramp \in TrampResults(t) :
            Install(h, t, cb, en, stub, tramp)
UnhookAny == \E h \in AllHandles : Unhook(h)
DestroyAny == \E h \in AllHandles : Destroy(h)
EnableAny == \E h \in AllHandles : Enable(h)
DisableAny == \E h \in AllHandles : Disable(h)
SetDetourAny == \E h \in AllHandles, cb \in Callbacks : SetDetour(h, cb)

Next ==
    \/ InstallAny
    \/ UnhookAny
    \/ DestroyAny
    \/ EnableAny
    \/ DisableAny
    \/ SetDetourAny

Spec == Init /\ [][Next]_vars

\* install and uninstall only
NextIU ==
    \/ InstallAny
    \/ UnhookAny
    \/ DestroyAny

SpecIU == Init /\ [][NextIU]_vars

\* Hook::Hook with a null callback, which the constructor accepts when
\* enable_now is false
InstallNullAny ==
    \E h \in Handles, t \in SeqTargets :
        \E stub \in StubResults(t), tramp \in TrampResults(t) :
            Install(h, t, NULL, FALSE, stub, tramp)

\* the calls on Hook objects that are each constructed once (no object is
\* destroyed and constructed again), null callbacks included
NextNull ==
    \/ InstallAny
    \/ InstallNullAny
    \/ UnhookAny
    \/ EnableAny
    \/ DisableAny
    \/ SetDetourAny

SpecNull == Init /\ [][NextNull]_vars

\* the same calls made on hooks of the one-instruction function
InstallShortAny ==
    \E h \in Handles, cb \in Callbacks, en \in BOOLEAN :
        \E stub \in StubResults(ShortTarget), tramp \in TrampResults(ShortTarget) :
            Install(h, ShortTarget, cb, en, stub, tramp)

NextShort ==
    \/ InstallShortAny
    \/ UnhookAny
    \/ EnableAny
    \/ DisableAny
    \/ SetDetourAny

SpecShort == Init /\ [][NextShort]_vars

\* Hook b(std::move(a))
MoveConstruct(dst, src) ==
    /\ dst \notin alive
    /\ src \in alive
    /\ SetWorld(move_construct(World, dst, src))
    /\ alive' = alive \cup {dst}
    /\ UNCHANGED <<pvars, cvars, mvars>>

\* b = std::move(a)
MoveAssign(dst, src) ==
    /\ dst \in alive
    /\ src \in alive
    /\ dst # src
    /\ SetWorld(move_assign(World, dst, src))
    /\ UNCHANGED <<pvars, alive, cvars, mvars>>

MoveConstructAny == \E dst \in AllHandles, src \in AllHandles : MoveConstruct(dst, src)
MoveAssignAny == \E dst \in AllHandles, src \in AllHandles : MoveAssign(dst, src)

\* the calls of the sequential API together with moves of the handles
NextMove ==
    \/ InstallAny
    \/ MoveConstructAny
    \/ MoveAssignAny
    \/ UnhookAny
    \/ DestroyAny
    \/ EnableAny
    \/ DisableAny

SpecMove == Init /\ [][NextMove]_vars

\* ========================================================================
\* The API called from several threads, one action per step of a call
\* ========================================================================
\* The position of a thread in a call (thr[k].pc):
\*   "idle"    not in a call
\*   "call"    passed the checks made before any lock; about to lock
\*             g_hooks_mutex
\*   "reg"     holds g_hooks_mutex
\*   "info"    holds g_hooks_mutex and the info_mutex of its target
\*   "tail"    inside atomic_patch, before the store of bytes [4, size)
\*   "head"    inside atomic_patch, before the store of bytes [0, 4)
\*   "post"    after the patch, before the locks are released
\*   "freed"   the HookInfo is erased, the lock_guards are still in scope
\*   "unwind"  an exception is propagating out of the constructor
\* thr[k].code is the patch handed to atomic_patch and thr[k].stores the
\* stores the call has made to its target so far, as <<offset, size>> in
\* bytes.  thr[k].stub and thr[k].tramp are what the mmap calls of an
\* install will return, fixed when the install takes the HookInfo mutex.

InlineOps == {"install", "unhook", "enable", "disable", "set_detour"}

\* the Hook objects thread k constructs and calls
ThreadHandles(k) == {h \in Handles : ((h - 1) % MaxThreads) + 1 = k}

\* a thread stopped by SIGSTOP takes no step
Runnable(k) == stw = 0 \/ stw = k

\* std::mutex::lock returns only when nobody holds the mutex
mutex_never_blocks(m) == TRUE
mutex_available(m) == m = 0

InstArgs(r) ==
    [h |-> r.h, t |-> r.t, cb |-> r.cb, en |-> r.en, stub |-> r.stub,
     tramp |-> r.tramp]

StartCall(k, op, h, t, cb, en) ==
    thr' = [thr EXCEPT ![k] = [pc |-> "call", op |-> op, h |-> h, t |-> t,
                               cb |-> cb, en |-> en, stub |-> NULL,
                               tramp |-> NULL, code |-> << >>,
                               stores |-> << >>]]

\* Hook::Hook: the argument checks
CallInstall(k, h, t, cb, en) ==
    /\ Runnable(k) /\ thr[k].pc = "idle"
    /\ h \in ThreadHandles(k) /\ h \notin alive
    /\ t # NULL /\ ~(cb = NULL /\ en)
    /\ StartCall(k, "install", h, t, cb, en)
    /\ UNCHANGED <<pvars, hvars, g_hooks_mutex, info_mutex, stw, lin, mvars>>

\* Hook::~Hook -> do_unhook: if (!is_valid()) return
CallUnhook(k, h) ==
    /\ Runnable(k) /\ thr[k].pc = "idle"
    /\ h \in ThreadHandles(k) /\ h \in alive /\ is_valid(handles[h])
    /\ StartCall(k, "unhook", h, handles[h].target_address_, NULL, FALSE)
    /\ UNCHANGED <<pvars, hvars, g_hooks_mutex, info_mutex, stw, lin, mvars>>

\* Hook::enable: the early returns before the lock
CallEnable(k, h) ==
    /\ Runnable(k) /\ thr[k].pc = "idle"
    /\ h \in ThreadHandles(k) /\ h \in alive
    /\ is_valid(handles[h]) /\ ~handles[h].is_enabled_
    /\ handles[h].callback_ # NULL
    /\ StartCall(k, "enable", h, handles[h].target_address_, NULL, TRUE)
    /\ UNCHANGED <<pvars, hvars, g_hooks_mutex, info_mutex, stw, lin, mvars>>

\* Hook::disable: the early returns before the lock
CallDisable(k, h) ==
    /\ Runnable(k) /\ thr[k].pc = "idle"
    /\ h \in ThreadHandles(k) /\ h \in alive
    /\ is_valid(handles[h]) /\ handles[h].is_enabled_
    /\ StartCall(k, "disable", h, handles[h].target_address_, NULL, FALSE)
    /\ UNCHANGED <<pvars, hvars, g_hooks_mutex, info_mutex, stw, lin, mvars>>

\* Hook::set_detour: if (!is_valid()) return
CallSetDetour(k, h, cb) ==
    /\ Runnable(k) /\ thr[k].pc = "idle"
    /\ h \in ThreadHandles(k) /\ h \in alive /\ is_valid(handles[h])
    /\ StartCall(k, "set_detour", h, handles[h].target_address_, cb, FALSE)
    /\ UNCHANGED <<pvars, hvars, g_hooks_mutex, info_mutex, stw, lin, mvars>>

\* std::lock_guard<std::mutex> lock(g_hooks_mutex)
Acquire(k) ==
    /\ Runnable(k) /\ thr[k].pc = "call"
    /\ mutex_available(g_hooks_mutex)
    /\ g_hooks_mutex' = k
    /\ thr' = [thr EXCEPT ![k].pc = "reg"]
    /\ UNCHANGED <<pvars, hvars, info_mutex, stw, lin, mvars>>

\* Hook::Hook: g_hooks.find / insert of the HookInfo, then
\* std::lock_guard info_lock(info.info_mutex) and the first assignments
InstallLookup(k, stub, tramp) ==
    LET r == [thr[k] EXCEPT !.stub = stub, !.tramp = tramp]
    IN  /\ Runnable(k) /\ r.pc = "reg" /\ r.op = "install"
        /\ mutex_available(info_mutex[r.t])
        /\ SetWorld(inst_lookup(World, InstArgs(r)))
        /\ lin' = HookCtor(lin, InstArgs(r))
        /\ info_mutex' = [info_mutex EXCEPT ![r.t] = k]
        /\ thr' = [thr EXCEPT ![k] = [r EXCEPT !.pc = "info"]]
        /\ UNCHANGED <<pvars, alive, g_hooks_mutex, stw, mvars>>

\* the call as the sequential engine runs it
RunCall(w, r) ==
    CASE r.op = "unhook" -> do_unhook(w, r.h)
      [] r.op = "enable" -> enable(w, r.h)
      [] r.op = "disable" -> disable(w, r.h)
      [] r.op = "set_detour" -> set_detour(w, r.h, r.cb)
      [] OTHER -> w

\* the other calls: g_hooks.find, then std::lock_guard
\* info_lock(info.info_mutex).  A call that finds no HookInfo returns here
\* (do_unhook resets the handle first) and the registry mutex is released.
Lookup(k) ==
    LET r == thr[k]
    IN  /\ Runnable(k) /\ r.pc = "reg" /\ r.op # "install"
        /\ lin' = RunCall(lin, r)
        /\ IF r.t \in DOMAIN g_hooks
           THEN /\ mutex_available(info_mutex[r.t])
                /\ info_mutex' = [info_mutex EXCEPT ![r.t] = k]
                /\ thr' = [thr EXCEPT ![k].pc = "info"]
                /\ UNCHANGED <<pvars, hvars, g_hooks_mutex>>
           ELSE /\ SetWorld(IF r.op = "unhook" THEN hook_reset(World, r.h) ELSE World)
                /\ alive' = (IF r.op = "unhook" THEN alive \ {r.h} ELSE alive)
                /\ g_hooks_mutex' = 0
                /\ thr' = [thr EXCEPT ![k] = IdleThread]
                /\ UNCHANGED <<pvars, info_mutex>>
        /\ UNCHANGED <<pvars, stw, mvars>>

\* where a call goes once it knows the words it hands to atomic_patch:
\* atomic_patch returns at once for an empty patch and skips the first
\* store for a patch of one word
PatchEntry(code) ==
    IF code = << >> THEN "post" ELSE IF Len(code) > 1 THEN "tail" ELSE "head"

\* Hook::Hook from the stub allocation to the push of the chain entry
InstallWork(k) ==
    LET r == thr[k]
        a == InstArgs(r)
        w2 == inst_alloc(World, a)
        w5 == inst_chain(inst_stub(inst_tramp(w2, a), a), a)
    IN  /\ Runnable(k) /\ r.pc = "info" /\ r.op = "install"
        /\ IF inst_tramp_throws(w2, a)
           THEN /\ SetWorld(inst_abandon(inst_tramp_thrown(w2, a), a))
                /\ thr' = [thr EXCEPT ![k].pc = "unwind"]
           ELSE /\ SetWorld(w5)
                /\ thr' = [thr EXCEPT ![k].code = inst_patch_code(w5, a),
                                      ![k].pc = PatchEntry(inst_patch_code(w5, a))]
        /\ UNCHANGED <<pvars, alive, g_hooks_mutex, info_mutex, stw, lin, mvars>>

\* do_unhook from find_if to the stub update
UnhookWork(k) ==
    LET r == thr[k]
        w1 == unh_chain(World, r.h)
        w2 == IF unh_empties(w1, r.h) THEN w1 ELSE unh_stub(w1, r.h)
    IN  /\ Runnable(k) /\ r.pc = "info" /\ r.op = "unhook"
        /\ SetWorld(w2)
        /\ thr' = [thr EXCEPT ![k].code = unh_patch_code(w2, r.h),
                              ![k].pc = PatchEntry(unh_patch_code(w2, r.h))]
        /\ UNCHANGED <<pvars, alive, g_hooks_mutex, info_mutex, stw, lin, mvars>>

\* enable / disable from find_if to the stub update
FlagWork(k) ==
    LET r == thr[k]
        w2 == flag_stub(flag_set(World, r.h, r.en), r.h)
    IN  /\ Runnable(k) /\ r.pc = "info" /\ r.op \in {"enable", "disable"}
        /\ SetWorld(w2)
        /\ thr' = [thr EXCEPT ![k].code = flag_patch_code(w2, r.h),
                              ![k].pc = PatchEntry(flag_patch_code(w2, r.h))]
        /\ UNCHANGED <<pvars, alive, g_hooks_mutex, info_mutex, stw, lin, mvars>>

\* set_detour from find_if to the stub update
SetDetourWork(k) ==
    LET r == thr[k]
        w2 == IF sd_refused(World, r.h) THEN World
              ELSE sd_stub(sd_store(World, r.h, r.cb), r.h, r.cb)
        code == IF sd_refused(World, r.h) THEN << >>
                ELSE sd_patch_code(w2, r.h, r.cb)
    IN  /\ Runnable(k) /\ r.pc = "info" /\ r.op = "set_detour"
        /\ SetWorld(w2)
        /\ thr' = [thr EXCEPT ![k].code = code, ![k].pc = PatchEntry(code)]
        /\ UNCHANGED <<pvars, alive, g_hooks_mutex, info_mutex, stw, lin, mvars>>

\* atomic_patch, step 1: write(address + 4, patch_code + 4, patch_size - 4)
PatchTail(k) ==
    LET r == thr[k]
    IN  /\ Runnable(k) /\ r.pc = "tail"
        /\ mem' = [mem EXCEPT ![r.t] = atomic_patch_tail(mem[r.t], r.code)]
        /\ thr' = [thr EXCEPT ![k].pc = "head",
                              ![k].stores = Append(r.stores,
                                               <<WORD, Len(r.code) * WORD - WORD>>)]
        /\ UNCHANGED <<pvars, g_hooks, maps, handles, alive, g_hooks_mutex, info_mutex,
                       stw, lin, mvars>>

\* atomic_patch, step 2: write(address, patch_code, 4)
PatchHead(k) ==
    LET r == thr[k]
    IN  /\ Runnable(k) /\ r.pc = "head"
        /\ mem' = [mem EXCEPT ![r.t] = atomic_patch_head(mem[r.t], r.code)]
        /\ thr' = [thr EXCEPT ![k].pc = "post",
                              ![k].stores = Append(r.stores, <<0, WORD>>)]
        /\ UNCHANGED <<pvars, g_hooks, maps, handles, alive, g_hooks_mutex, info_mutex,
                       stw, lin, mvars>>

\* what a call does after its patch, and the release of both locks when
\* its lock_guards go out of scope.  The uninstall that empties the chain
\* erases the HookInfo here, inside the scope of both lock_guards.
Finish(k) ==
    LET r == thr[k]
        w == World
        w1 == CASE r.op = "install" ->
                     inst_finish(w, InstArgs(r))
                [] r.op = "unhook" ->
                     hook_reset(IF unh_empties(w, r.h) THEN unh_free(w, r.h) ELSE w,
                                r.h)
                [] OTHER -> w
    IN  /\ Runnable(k) /\ r.pc = "post"
        /\ SetWorld(w1)
        /\ alive' = (CASE r.op = "install" -> alive \cup {r.h}
                       [] r.op = "unhook" -> alive \ {r.h}
                       [] OTHER -> alive)
        /\ IF r.op = "unhook" /\ unh_empties(w, r.h)
           THEN /\ thr' = [thr EXCEPT ![k].pc = "freed"]
                /\ UNCHANGED <<info_mutex, g_hooks_mutex>>
           ELSE /\ info_mutex' = [info_mutex EXCEPT ![r.t] = 0]
                /\ g_hooks_mutex' = 0
                /\ thr' = [thr EXCEPT ![k] = IdleThread]
        /\ UNCHANGED <<pvars, stw, lin, mvars>>

\* do_unhook returns after g_hooks.erase(it): info_lock unlocks the mutex
\* of the HookInfo, then lock unlocks the registry mutex
ReleaseErased(k) ==
    LET r == thr[k]
    IN  /\ Runnable(k) /\ r.pc = "freed"
        /\ info_mutex' = [info_mutex EXCEPT ![r.t] = 0]
        /\ g_hooks_mutex' = 0
        /\ thr' = [thr EXCEPT ![k] = IdleThread]
        /\ UNCHANGED <<pvars, hvars, stw, lin, mvars>>

\* catch (...) { throw; } : the lock_guards release both locks
Unwind(k) ==
    LET r == thr[k]
    IN  /\ Runnable(k) /\ r.pc = "unwind"
        /\ info_mutex' = [info_mutex EXCEPT ![r.t] = 0]
        /\ g_hooks_mutex' = 0
        /\ thr' = [thr EXCEPT ![k] = IdleThread]
        /\ UNCHANGED <<pvars, hvars, stw, lin, mvars>>

\* ------------------------------------------------------------------------
\* MidHook, step by step.  Its patches go through memory::write directly.
\* ------------------------------------------------------------------------

mid_is_valid(m) == m.target_address_ # NULL /\ m.detour_ # NULL

\* a jump that misses the detour by one instruction
mid_branch_past(detour) == gen_abs_jump(detour + 1)

\* the words of a jump to the detour
mid_branch_code(detour) == gen_abs_jump(detour)

\* what MidHook::enable() / disable() return: false on the early return
mid_enable_result(m) == ~(~mid_is_valid(m) \/ m.is_enabled_)
mid_disable_result(m) == ~(~mid_is_valid(m) \/ ~m.is_enabled_)

StartMid(k, op, code) ==
    thr' = [thr EXCEPT ![k] = [pc |-> (IF op = "mid_hook" THEN "m_work" ELSE "m_write"),
                               op |-> op, h |-> 0, t |-> 0, cb |-> NULL,
                               en |-> FALSE, stub |-> NULL, tramp |-> NULL,
                               code |-> code, stores |-> << >>]]

\* MidHook::MidHook -> do_hook: suspend_all_other_threads()
MidCallHook(k, cb) ==
    /\ Runnable(k) /\ thr[k].pc = "idle"
    /\ mid.target_address_ = NULL
    /\ cb # NULL
    /\ mid' = [mid EXCEPT !.target_address_ = MidTargetAddr, !.callback_ = cb]
    /\ stw' = k
    /\ StartMid(k, "mid_hook", << >>)
    /\ UNCHANGED <<pvars, hvars, g_hooks_mutex, info_mutex, lin, mid_mem>>

\* do_hook steps 1 to 4: save the original instructions, build the detour
\* (detour is what the JIT allocation returns), generate the jump
MidWork(k, detour) ==
    /\ Runnable(k) /\ thr[k].pc = "m_work"
    /\ mid' = [mid EXCEPT !.original_instructions_ =
                              SubSeq(mid_mem, 1, JUMP_INSTRUCTION_SIZE \div WORD),
                          !.detour_ = detour]
    /\ thr' = [thr EXCEPT ![k].code = (IF detour = NULL THEN << >>
                                       ELSE mid_branch_code(detour)),
                          ![k].pc = (IF detour = NULL THEN "m_unwind" ELSE "m_loop")]
    /\ UNCHANGED <<pvars, hvars, g_hooks_mutex, info_mutex, stw, lin, mid_mem>>

\* do_hook stage 1: memory::write(target, "B .", 4)
MidLoop(k) ==
    /\ Runnable(k) /\ thr[k].pc = "m_loop"
    /\ mid_mem' = WriteWords(mid_mem, 1, << b_word(MidTargetAddr, MidTargetAddr) >>)
    /\ thr' = [thr EXCEPT ![k].pc = "m_tail",
                          ![k].stores = Append(thr[k].stores, <<0, WORD>>)]
    /\ UNCHANGED <<pvars, hvars, g_hooks_mutex, info_mutex, stw, lin, mid>>

\* do_hook stage 2: memory::write(target + 4, branch_code + 4, size - 4)
MidTail(k) ==
    /\ Runnable(k) /\ thr[k].pc = "m_tail"
    /\ mid_mem' = WriteWords(mid_mem, 2, SubSeq(thr[k].code, 2, Len(thr[k].code)))
    /\ thr' = [thr EXCEPT ![k].pc = "m_head",
                          ![k].stores = Append(thr[k].stores,
                                           <<WORD, JUMP_INSTRUCTION_SIZE - WORD>>)]
    /\ UNCHANGED <<pvars, hvars, g_hooks_mutex, info_mutex, stw, lin, mid>>

\* do_hook stage 3: memory::write(target, branch_code, 4); is_enabled_ = true
MidHead(k) ==
    /\ Runnable(k) /\ thr[k].pc = "m_head"
    /\ mid_mem' = WriteWords(mid_mem, 1, << thr[k].code[1] >>)
    /\ mid' = [mid EXCEPT !.is_enabled_ = TRUE]
    /\ thr' = [thr EXCEPT ![k].pc = "m_post",
                          ![k].stores = Append(thr[k].stores, <<0, WORD>>)]
    /\ UNCHANGED <<pvars, hvars, g_hooks_mutex, info_mutex, stw, lin>>

\* MidHook::enable up to the generated jump
MidCallEnable(k) ==
    /\ Runnable(k) /\ thr[k].pc = "idle"
    /\ mid_is_valid(mid) /\ ~mid.is_enabled_
    /\ stw' = k
    /\ StartMid(k, "mid_enable", mid_branch_code(mid.detour_))
    /\ UNCHANGED <<pvars, hvars, g_hooks_mutex, info_mutex, lin, mvars>>

\* MidHook::disable -> do_unhook up to the write
MidCallDisable(k) ==
    /\ Runnable(k) /\ thr[k].pc = "idle"
    /\ mid_is_valid(mid) /\ mid.is_enabled_
    /\ stw' = k
    /\ StartMid(k, "mid_disable", mid.original_instructions_)
    /\ UNCHANGED <<pvars, hvars, g_hooks_mutex, info_mutex, lin, mvars>>

\* MidHook::unhook of an enabled hook -> do_unhook up to the write
MidCallUnhook(k) ==
    /\ Runnable(k) /\ thr[k].pc = "idle"
    /\ mid.is_enabled_ /\ mid_is_valid(mid)
    /\ stw' = k
    /\ StartMid(k, "mid_unhook", mid.original_instructions_)
    /\ UNCHANGED <<pvars, hvars, g_hooks_mutex, info_mutex, lin, mvars>>

\* MidHook::unhook of a disabled hook: reset() only
MidUnhookDisabled(k) ==
    /\ Runnable(k) /\ thr[k].pc = "idle"
    /\ mid.target_address_ # NULL /\ ~mid.is_enabled_
    /\ mid' = ResetMidHook
    /\ UNCHANGED <<pvars, hvars, cvars, mid_mem>>

\* enable / do_unhook: memory::write(target, code, size), one memcpy
MidWrite(k) ==
    /\ Runnable(k) /\ thr[k].pc = "m_write"
    /\ mid_mem' = WriteWords(mid_mem, 1, thr[k].code)
    /\ thr' = [thr EXCEPT ![k].pc = "m_post",
                          ![k].stores = Append(thr[k].stores,
                                           <<0, Len(thr[k].code) * WORD>>)]
    /\ UNCHANGED <<pvars, hvars, g_hooks_mutex, info_mutex, stw, lin, mid>>

\* the flag updates after the write and resume_all_other_threads()
MidFinish(k) ==
    /\ Runnable(k) /\ thr[k].pc = "m_post"
    /\ mid' = (CASE thr[k].op = "mid_enable" -> [mid EXCEPT !.is_enabled_ = TRUE]
                 [] thr[k].op = "mid_disable" -> [mid EXCEPT !.is_enabled_ = FALSE]
                 [] thr[k].op = "mid_unhook" -> ResetMidHook
                 [] OTHER -> mid)
    /\ stw' = 0
    /\ thr' = [thr EXCEPT ![k] = IdleThread]
    /\ UNCHANGED <<pvars, hvars, g_hooks_mutex, info_mutex, lin, mid_mem>>

\* do_hook's catch: resume_all_other_threads(); throw -- no object is built
MidUnwind(k) ==
    /\ Runnable(k) /\ thr[k].pc = "m_unwind"
    /\ mid' = ResetMidHook
    /\ stw' = 0
    /\ thr' = [thr EXCEPT ![k] = IdleThread]
    /\ UNCHANGED <<pvars, hvars, g_hooks_mutex, info_mutex, lin, mid_mem>>

\* ------------------------------------------------------------------------
\* Specifications of the threaded library
\* ------------------------------------------------------------------------
\* what the mmap calls of an install return in the threaded specifications
ConcStubChoices(t) == {NearStub(t), FarStub(t)}
ConcStubResults(t) == IF StubResults(t) = {NULL} THEN {NULL} ELSE ConcStubChoices(t)

\* the steps of a call of the inline-hook engine once it has started
InlineStep(k) ==
    \/ Acquire(k)
    \/ \E stub \in ConcStubResults(thr[k].t), tramp \in TrampResults(thr[k].t) :
           InstallLookup(k, stub, tramp)
    \/ Lookup(k)
    \/ InstallWork(k)
    \/ UnhookWork(k)
    \/ FlagWork(k)
    \/ PatchTail(k)
    \/ PatchHead(k)
    \/ Finish(k)
    \/ ReleaseErased(k)
    \/ Unwind(k)

\* threads installing, uninstalling, enabling and disabling hooks of one
\* target
NextConc ==
    \E k \in Threads :
        \/ \E h \in Handles, en \in BOOLEAN : CallInstall(k, h, 1, Cb(1), en)
        \/ \E h \in Handles : CallUnhook(k, h)
        \/ \E h \in Handles : CallEnable(k, h)
        \/ \E h \in Handles : CallDisable(k, h)
        \/ InlineStep(k)

SpecConc == Init /\ [][NextConc]_vars

\* threads installing, uninstalling, enabling and disabling hooks of two
\* targets
NextTargets ==
    \E k \in Threads :
        \/ \E h \in Handles, t \in Targets, en \in BOOLEAN :
               CallInstall(k, h, t, Cb(1), en)
        \/ \E h \in Handles : CallUnhook(k, h)
        \/ \E h \in Handles : CallEnable(k, h)
        \/ \E h \in Handles : CallDisable(k, h)
        \/ InlineStep(k)

SpecTargets == Init /\ [][NextTargets]_vars

\* every operation that patches a target: the inline-hook API on one
\* target and the mid-function hook
NextPatch ==
    \E k \in Threads :
        \/ \E h \in Handles, en \in BOOLEAN : CallInstall(k, h, 1, Cb(1), en)
        \/ \E h \in Handles : CallUnhook(k, h)
        \/ \E h \in Handles : CallEnable(k, h)
        \/ \E h \in Handles : CallDisable(k, h)
        \/ \E h \in Handles : CallSetDetour(k, h, Cb(2))
        \/ InlineStep(k)
        \/ SetDetourWork(k)
        \/ MidCallHook(k, Cb(1))
        \/ \E detour \in {NULL, MidDetour} : MidWork(k, detour)
        \/ MidLoop(k)
        \/ MidTail(k)
        \/ MidHead(k)
        \/ MidCallEnable(k)
        \/ MidCallDisable(k)
        \/ MidCallUnhook(k)
        \/ MidUnhookDisabled(k)
        \/ MidWrite(k)
        \/ MidFinish(k)
        \/ MidUnwind(k)

SpecPatch == Init /\ [][NextPatch]_vars

\* ========================================================================
\* choose_patch_sequence called on its own
\* ========================================================================
\* targets: near the start of a page high in the address space, the last
\* word of that page, and a target low in the address space
PlanTargets == {TargetAddr(1), TargetBase(1) + PAGE_WORDS - 1, FarStub(1) + 8}

\* destination offsets (in words) at and around the limits of the B and
\* ADRP encodings
PlanOffsets ==
    {b + d : b \in {0, B_MIN_WORDS, B_MAX_WORDS,
                    ADRP_MIN_PAGES * PAGE_WORDS, ADRP_MAX_PAGES * PAGE_WORDS,
                    2 * ADRP_MIN_PAGES * PAGE_WORDS,
                    (2 * ADRP_MAX_PAGES + 1) * PAGE_WORDS},
             d \in {0 - PAGE_WORDS, -1, 0, 1, PAGE_WORDS}}

\* the (target, destination) pairs that are addresses
PlanInputs ==
    UNION {{<<t, t + o>> :
               o \in {x \in PlanOffsets : x # 0 /\ x > 0 - t /\ x <= 2147482623 - t}} :
           t \in PlanTargets}

InitPlan ==
    /\ InitEngine
    /\ InitIdle
    /\ rel = NoReloc
    /\ \E p \in PlanInputs :
          plan = [target |-> p[1], dest |-> p[2], code |-> << >>, done |-> FALSE]

\* choose_patch_sequence(target, dest, out_code, out_patch_size)
PlanCall ==
    /\ plan.target # NULL /\ ~plan.done
    /\ plan' = [plan EXCEPT !.code = choose_patch_sequence(plan.target, plan.dest),
                            !.done = TRUE]
    /\ UNCHANGED <<rel, vmt, qvars, hvars, cvars, mvars>>

SpecPlan == InitPlan /\ [][PlanCall]_vars

\* C16: the planner returns the 4-byte B when the destination is within
\* +-128 MiB of the target, otherwise ADRP+ADD+BR (12 bytes) when the
\* destination page is within the 21-bit signed page range of ADRP (a 33-bit
\* byte offset), otherwise the 20-byte absolute jump; the sequence jumps to
\* the destination.
C16_ShortestPatchSequence ==
    plan.done =>
        LET off == plan.dest - plan.target
            pages == PageOf(plan.dest) - PageOf(plan.target)
            size == Len(plan.code) * WORD
        IN  /\ JumpDest(plan.code, plan.target) = plan.dest
            /\ IF off >= B_MIN_WORDS /\ off <= B_MAX_WORDS THEN size = WORD
               ELSE IF pages >= 2 * ADRP_MIN_PAGES /\ pages <= 2 * ADRP_MAX_PAGES + 1
                    THEN size = 3 * WORD
                    ELSE size = ABS_JUMP_SIZE

\* ------------------------------------------------------------------------
\* relocate_trampoline called on a prefix
\* ------------------------------------------------------------------------
LowTarget == 16392
RelocTargets == {TargetAddr(1), LowTarget}
DataPage(at) == (PageOf(at) + 16) * PAGE_WORDS
LiteralAddr(at) == at + 5
InitialMemory(at) ==
    (LiteralAddr(at) :> 41) @@ [a \in {DataPage(at) + d : d \in 0..3} |-> 30 + (a - DataPage(at))]

\* prefixes with address-forming instructions
DataPrefixes(at) ==
    { << adrp_word(at, DataPage(at), 0), add_word(0, 0, 8), NopWord >>,
      << adrp_word(at, DataPage(at), 1), add_word(0, 1, 8), NopWord >>,
      << adrp_word(at, DataPage(at), 0), ldr_word(0, 0, 8), NopWord >>,
      << adrp_word(at, DataPage(at), 0), ldr_word(1, 0, 8), NopWord >>,
      << adrp_word(at, DataPage(at), 0), str_word(1, 0, 8), NopWord >>,
      << adrp_word(at, DataPage(at), 0), NopWord, NopWord >>,
      << adr_word(at, at + 4, 0), NopWord, NopWord >>,
      << ldr_lit_word(at, LiteralAddr(at), 0), NopWord, NopWord >>,
      << add_word(0, 0, 8), NopWord, NopWord >>,
      << ldr_word(1, 0, 8), NopWord, NopWord >> }

\* prefixes with a conditional branch
BranchPrefixes(at) ==
    { << bcond_word(at, at + 4, COND_EQ), NopWord, NopWord >>,
      << cbz_word(at, at + 4, 0), NopWord, NopWord >>,
      << cbnz_word(at, at + 4, 0), NopWord, NopWord >>,
      << tbz_word(at, at + 4, 0, 0), NopWord, NopWord >>,
      << tbnz_word(at, at + 4, 0, 0), NopWord, NopWord >>,
      << NopWord, cbz_word(at + 1, at + 4, 1), NopWord >> }

RequiredSizes == {WORD, 3 * WORD}
RegisterValues == {0, 5}

\* the word before the target is a NOP, or it is an ADRP X0 that has just
\* been executed
RelocInput(at, ws, prevw, required, r0, r1, z) ==
    [at |-> at, ws |-> ws, prev |-> prevw, required |-> required,
     cpu |-> [r |-> (0 :> (IF prevw = NopWord THEN r0 ELSE DataPage(at)))
                    @@ (1 :> r1) @@ (X16 :> 9),
              m |-> InitialMemory(at), z |-> z, pc |-> 0],
     out |-> [ok |-> FALSE, backup_size |-> 0, code |-> << >>],
     done |-> FALSE]

InitReloc ==
    /\ InitEngine
    /\ InitIdle
    /\ plan = NoPlan
    /\ \E at \in RelocTargets :
         \E ws \in DataPrefixes(at) \cup BranchPrefixes(at),
            prevw \in {NopWord, adrp_word(at - 1, DataPage(at), 0)},
            required \in RequiredSizes,
            r0 \in RegisterValues, r1 \in RegisterValues, z \in BOOLEAN :
              rel = RelocInput(at, ws, prevw, required, r0, r1, z)

\* Hook::Hook calls relocate_trampoline(target, 0, backup_size, required)
RelocCall ==
    /\ rel.at # NULL /\ ~rel.done
    /\ rel' = [rel EXCEPT
                 !.out = relocate_words(rel.ws, 1, rel.at, rel.prev, 0, 0, << >>,
                                        rel.required),
                 !.done = TRUE]
    /\ UNCHANGED <<plan, vmt, qvars, hvars, cvars, mvars>>

SpecReloc == InitReloc /\ [][RelocCall]_vars

\* the processor after the original prefix (the backup_size bytes the
\* relocation consumed) run at the target
RanOriginal ==
    run_code(rel.cpu, SubSeq(rel.ws, 1, rel.out.backup_size \div WORD), rel.at, 1)

\* the processor after the trampoline run at its own address
RanTrampoline ==
    run_code(rel.cpu, trampoline_code(rel.out, rel.at), TrampAddr(1), 1)

\* C14: for a prefix with ADRP+ADD, ADRP+LDR/STR, a lone ADRP, ADR or a
\* literal LDR, the relocation succeeds and running the trampoline leaves
\* every register other than X16 and every memory location as running the
\* original prefix at the target does.
C14_RelocatedPrefixEquivalent ==
    (rel.done /\ rel.ws \in DataPrefixes(rel.at))
        => /\ rel.out.ok
           /\ \A x \in Regs \ {X16} : RanTrampoline.r[x] = RanOriginal.r[x]
           /\ RanTrampoline.m = RanOriginal.m

\* C15: for a prefix with B.cond, CBZ, CBNZ, TBZ or TBNZ, the relocation
\* succeeds and the trampoline leaves for the same address as the original
\* prefix does (the branch target when the condition holds, the instruction
\* after the prefix when it does not), with the same flag.
C15_ConditionalBranchRelocated ==
    (rel.done /\ rel.ws \in BranchPrefixes(rel.at))
        => /\ rel.out.ok
           /\ RanTrampoline.pc = RanOriginal.pc
           /\ RanTrampoline.z = RanOriginal.z

\* ------------------------------------------------------------------------
\* The VMT hook API, one action per call.  vmt.stacked records that every
\* call so far installed a hook or uninstalled the newest remaining hook of
\* its entry.
\* ------------------------------------------------------------------------
VmHookMethod(index) ==
    /\ Len(vmt.hooks) < MaxVmHooks
    /\ vmt' = hook_method(vmt, index, VmFunction(Len(vmt.hooks) + 1))
    /\ UNCHANGED <<plan, rel, qvars, hvars, cvars, mvars>>

VmUnhook(k) ==
    /\ k \in 1..Len(vmt.hooks)
    /\ vmt.hooks[k].vmt_entry_address_ # NULL
    /\ vmt' = [vm_unhook(vmt, k) EXCEPT
                 !.stacked = vmt.stacked /\ IsNewest(vmt, k) /\ vmt.hooks[k].is_enabled_]
    /\ UNCHANGED <<plan, rel, qvars, hvars, cvars, mvars>>

VmEnable(k) ==
    /\ k \in 1..Len(vmt.hooks)
    /\ vmt' = [vm_enable(vmt, k) EXCEPT
                 !.stacked = vmt.stacked /\ vm_enable(vmt, k) = vmt]
    /\ UNCHANGED <<plan, rel, qvars, hvars, cvars, mvars>>

VmDisable(k) ==
    /\ k \in 1..Len(vmt.hooks)
    /\ vmt' = [vm_disable(vmt, k) EXCEPT
                 !.stacked = vmt.stacked /\ vm_disable(vmt, k) = vmt]
    /\ UNCHANGED <<plan, rel, qvars, hvars, cvars, mvars>>

NextVmt ==
    \/ \E index \in VmIndexes : VmHookMethod(index)
    \/ \E k \in 1..MaxVmHooks : VmUnhook(k)
    \/ \E k \in 1..MaxVmHooks : VmEnable(k)
    \/ \E k \in 1..MaxVmHooks : VmDisable(k)

SpecVmt == Init /\ [][NextVmt]_vars

\* a call through the entry at address a: the hook objects whose functions
\* run, in order, then 0 when the original method is reached, or -1 when
\* control reaches a pointer that is neither
RECURSIVE VmCallFrom(_, _, _, _)
VmCallFrom(v, a, p, depth) ==
    IF p = VmOriginal(a - VmtAddress) THEN << 0 >>
    ELSE IF depth = 0 \/ ~(\E k \in 1..Len(v.hooks) : p = VmFunction(k)) THEN << -1 >>
    ELSE LET k == CHOOSE j \in 1..Len(v.hooks) : p = VmFunction(j)
         IN  << k >> \o VmCallFrom(v, a, v.hooks[k].original_function_, depth - 1)
VmCall(v, a) == VmCallFrom(v, a, v.table[a], MaxVmHooks)

\* s reversed
RECURSIVE Reverse(_)
Reverse(s) == IF s = << >> THEN << >> ELSE Reverse(Tail(s)) \o << Head(s) >>

\* C20: while hooks are installed one after another and only the most
\* recently installed remaining hook of an entry is uninstalled, a new hook
\* captures as its original the pointer the entry held, a call through an
\* entry runs its remaining hooks newest first and then the original method,
\* and after an uninstall the entry holds the function of the newest hook
\* still remaining, or the original method when none remains.
C20_VmtHooksChain ==
    [][vmt'.stacked =>
         /\ Len(vmt'.hooks) > Len(vmt.hooks) =>
              LET h == vmt'.hooks[Len(vmt'.hooks)]
              IN  h.original_function_ = vmt.table[h.vmt_entry_address_]
         /\ \A a \in DOMAIN vmt'.table :
              /\ VmCall(vmt', a) = Reverse(Remaining(vmt', a)) \o << 0 >>
              /\ Len(Remaining(vmt', a)) < Len(Remaining(vmt, a)) =>
                   vmt'.table[a] =
                       IF Remaining(vmt', a) = << >> THEN VmOriginal(a - VmtAddress)
                       ELSE VmFunction(Remaining(vmt', a)[Len(Remaining(vmt', a))])]_vars

\* C20 witness: three hooks were installed on the first entry one after
\* another and the two newest have been uninstalled, newest first; the entry
\* holds the function of the first hook.
C20_Witness ==
    /\ vmt.stacked
    /\ Len(vmt.hooks) = 3
    /\ vmt.hooks[1].vmt_entry_address_ = VmtAddress
    /\ vmt.hooks[1].original_function_ = VmOriginal(0)
    /\ vmt.hooks[2].vmt_entry_address_ = NULL
    /\ vmt.hooks[3].vmt_entry_address_ = NULL
    /\ vmt.table[VmtAddress] = VmFunction(1)

\* C30: once every hook installed on a vtable entry has been uninstalled, in
\* whatever order, the entry holds the method it held before the first hook.
C30_VmtRestoredAnyOrder ==
    \A a \in DOMAIN vmt.table :
        Remaining(vmt, a) = << >> => vmt.table[a] = VmOriginal(a - VmtAddress)

\* ------------------------------------------------------------------------
\* memory::atomic_patch called on its own
\* ------------------------------------------------------------------------
\* the patch sequences the engine hands to atomic_patch for target 1
AtomicPatches ==
    {choose_patch_sequence(TargetAddr(1), d) : d \in StubChoices(1) \ {NULL}}
        \cup {patch_target_code(cb) : cb \in Callbacks}
        \cup {SubSeq(OriginalCode(1), 1, n) : n \in {1, 3, 5, 6}}
\* what the target holds when the call is made
AtomicMemories ==
    {OriginalCode(1)} \cup {atomic_patch(OriginalCode(1), c) : c \in AtomicPatches}

InitAtomic ==
    /\ InitEngine
    /\ ds = NoStub
    /\ plt = NoPlt
    /\ enc = NoEncode
    /\ plan = NoPlan
    /\ rel = NoReloc
    /\ \E c \in AtomicPatches, m \in AtomicMemories :
          ap = [code |-> c, m |-> m, prot |-> "r-x", pc |-> "protect", log |-> << >>,
                result |-> FALSE]

\* protect(address, patch_size, PROT_READ | PROT_WRITE | PROT_EXEC); the
\* call returns false when mprotect fails
AtomicProtect(ok) ==
    /\ ap.pc = "protect"
    /\ ap' = [ap EXCEPT !.prot = IF ok THEN "rwx" ELSE ap.prot,
                        !.log = Append(ap.log, "protect_rwx"),
                        !.pc = after_protect(ap.code, ok)]
    /\ UNCHANGED <<plan, rel, vmt, enc, plt, ds, hvars, cvars, mvars>>

\* write(address + 4, patch_code + 4, patch_size - 4)
AtomicTail ==
    /\ ap.pc = "tail"
    /\ ap' = [ap EXCEPT !.m = atomic_patch_tail(ap.m, ap.code),
                        !.log = Append(ap.log, "write_tail"),
                        !.pc = "head"]
    /\ UNCHANGED <<plan, rel, vmt, enc, plt, ds, hvars, cvars, mvars>>

\* write(address, patch_code, 4)
AtomicHead ==
    /\ ap.pc = "head"
    /\ ap' = [ap EXCEPT !.m = atomic_patch_head(ap.m, ap.code),
                        !.log = Append(ap.log, "write_head"),
                        !.pc = "restore"]
    /\ UNCHANGED <<plan, rel, vmt, enc, plt, ds, hvars, cvars, mvars>>

\* protect(address, patch_size, PROT_READ | PROT_EXEC); a failure is ignored
AtomicRestore(ok) ==
    /\ ap.pc = "restore"
    /\ ap' = [ap EXCEPT !.prot = IF ok THEN "r-x" ELSE ap.prot,
                        !.log = Append(ap.log, "protect_rx"),
                        !.pc = "flush"]
    /\ UNCHANGED <<plan, rel, vmt, enc, plt, ds, hvars, cvars, mvars>>

\* flush_instruction_cache(address, patch_size); return true
AtomicFlush ==
    /\ ap.pc = "flush"
    /\ ap' = [ap EXCEPT !.log = Append(ap.log, "flush_all"),
                        !.pc = "done", !.result = TRUE]
    /\ UNCHANGED <<plan, rel, vmt, enc, plt, ds, hvars, cvars, mvars>>

NextAtomic ==
    \/ \E ok \in BOOLEAN : AtomicProtect(ok)
    \/ AtomicTail
    \/ AtomicHead
    \/ \E ok \in BOOLEAN : AtomicRestore(ok)
    \/ AtomicFlush

SpecAtomic == InitAtomic /\ [][NextAtomic]_vars

\* the steps in the order the patching protocol prescribes them
PrescribedSteps(code) ==
    << "protect_rwx" >>
        \o (IF Len(code) > 1 THEN << "write_tail", "flush_tail" >> ELSE << >>)
        \o << "write_head", "flush_head", "protect_rx" >>

\* the positions of step s in a log
Positions(log, s) == {i \in 1..Len(log) : log[i] = s}

\* C25: a call of atomic_patch that returns true has taken the steps make
\* RWX, store the tail, flush the tail, store the head, flush the head,
\* restore R+X, in this order; whenever the head has been stored over a patch
\* of more than 4 bytes, a flush of the tail came before it.
C25_AtomicPatchOrder ==
    /\ (ap.pc = "done" /\ ap.result) => ap.log = PrescribedSteps(ap.code)
    /\ (Len(ap.code) > 1 /\ Positions(ap.log, "write_head") # {})
          => \E f \in Positions(ap.log, "flush_tail"), t \in Positions(ap.log, "write_tail"),
                h \in Positions(ap.log, "write_head") : t < f /\ f < h

\* ------------------------------------------------------------------------
\* The encoders called on their own
\* ------------------------------------------------------------------------
\* the bounds around which displacements are tried
RangeEdges == {256, 512, 1024, 2048, 524288, 1048576, 134217728}
Displacements ==
    {-16, -8, 0, 8, 16}
        \cup UNION {{-r - 8, -r, -r + 8, r - 8, r, r + 8} : r \in RangeEdges}
RegisterSizes(op) == IF op \in {"ldp", "stp"} THEN {4, 8} ELSE {8}

InitEncode ==
    /\ InitEngine
    /\ ds = NoStub
    /\ plt = NoPlt
    /\ plan = NoPlan
    /\ rel = NoReloc
    /\ ap = NoAtomic
    /\ \E op \in Encoders, d \in Displacements :
          \E size \in RegisterSizes(op) :
              enc = [op |-> op, d |-> d, size |-> size, done |-> FALSE, ok |-> FALSE,
                     imm |-> 0]

EncodeCall ==
    /\ ~enc.done
    /\ enc' = [enc EXCEPT !.done = TRUE,
                          !.ok = encoder_accepts(enc.op, enc.d, enc.size),
                          !.imm = IF encoder_accepts(enc.op, enc.d, enc.size)
                                  THEN encoder_imm(enc.op, enc.d, enc.size) ELSE 0]
    /\ UNCHANGED <<plan, rel, vmt, ap, plt, ds, hvars, cvars, mvars>>

SpecEncode == InitEncode /\ [][EncodeCall]_vars

\* the documented reach of an encoder: -reach <= d < reach
DocumentedReach(op, size) ==
    CASE op = "b" -> 134217728
      [] op \in {"b_cond", "cbz", "cbnz", "ldr_literal", "adr"} -> 1048576
      [] op = "adrp" -> 1048576
      [] op \in {"ldur", "stur"} -> 256
      [] op \in {"ldp", "stp"} -> 64 * size
InDocumentedRange(op, d, size) ==
    d >= -DocumentedReach(op, size) /\ d < DocumentedReach(op, size)

\* C23: an encoder throws exactly when the displacement is outside its
\* documented range (B 128 MiB; B.cond, CBZ, CBNZ, literal LDR and ADR 1 MiB;
\* ADRP 4 GiB in pages; LDUR/STUR 256 bytes; LDP/STP 64 times the register
\* size) and emits an instruction for every aligned displacement inside it,
\* negative ones included.
C23_EncoderRanges ==
    enc.done => (enc.ok <=> InDocumentedRange(enc.op, enc.d, enc.size))

\* ------------------------------------------------------------------------
\* A PLT Hook and the calls on it
\* ------------------------------------------------------------------------
\* what the loader can have left in a GOT entry: the lazy-binding stub or
\* the resolved function
LoadedPointers(a) == {a + 4096, a + 65536}

InitPlt ==
    /\ InitEngine
    /\ ds = NoStub
    /\ plan = NoPlan
    /\ rel = NoReloc
    /\ ap = NoAtomic
    /\ enc = NoEncode
    /\ \E g \in [GotAddresses -> UNION {LoadedPointers(a) : a \in GotAddresses}],
          rt \in {"DT_RELA", "DT_REL"} :
          /\ \A a \in GotAddresses : g[a] \in LoadedPointers(a)
          /\ plt = [NoPlt EXCEPT !.got = g, !.image_got = g, !.rel_type = rt,
                                 !.pc = "alive"]

PltHookSymbol(symbol, replacement, can_write) ==
    /\ plt.pc = "alive"
    /\ plt' = hook_symbol(plt, symbol, replacement, can_write)
    /\ UNCHANGED <<plan, rel, vmt, ap, enc, ds, hvars, cvars, mvars>>

PltUnhookSymbol(symbol, can_write) ==
    /\ plt.pc = "alive"
    /\ plt' = unhook_symbol(plt, symbol, can_write)
    /\ UNCHANGED <<plan, rel, vmt, ap, enc, ds, hvars, cvars, mvars>>

\* Hook::~Hook : lock mutex_ and copy the keys of entries_
PltDtorLock ==
    /\ plt.pc = "alive"
    /\ plt' = [plt EXCEPT !.mutex_ = TRUE, !.todo = DOMAIN plt.entries_, !.pc = "dtor"]
    /\ UNCHANGED <<plan, rel, vmt, ap, enc, ds, hvars, cvars, mvars>>

\* locking a std::mutex: a thread that already owns it has undefined
\* behaviour, which blocks for ever, throws std::system_error (out of a
\* destructor: std::terminate) or goes on
LockOutcomes(held) == IF held THEN {"blocks", "throws", "acquires"} ELSE {"acquires"}

\* Hook::~Hook : unhook_symbol(s) for one of the copied keys
PltDtorUnhook(symbol, outcome, can_write) ==
    /\ plt.pc = "dtor"
    /\ symbol \in plt.todo
    /\ outcome \in LockOutcomes(plt.mutex_)
    /\ plt' = CASE outcome = "blocks" -> [plt EXCEPT !.pc = "blocked"]
                [] outcome = "throws" -> [plt EXCEPT !.pc = "terminated"]
                [] outcome = "acquires" ->
                     [unhook_symbol(plt, symbol, can_write) EXCEPT !.todo = plt.todo \ {symbol}]
    /\ UNCHANGED <<plan, rel, vmt, ap, enc, ds, hvars, cvars, mvars>>

\* Hook::~Hook : the loop is over, mutex_ is released
PltDtorDone ==
    /\ plt.pc = "dtor"
    /\ plt.todo = {}
    /\ plt' = [plt EXCEPT !.mutex_ = FALSE, !.pc = "destroyed"]
    /\ UNCHANGED <<plan, rel, vmt, ap, enc, ds, hvars, cvars, mvars>>

PltDtorStep ==
    \/ \E s \in PltSymbols, o \in {"blocks", "throws", "acquires"}, w \in BOOLEAN :
          PltDtorUnhook(s, o, w)
    \/ PltDtorDone

NextPlt ==
    \/ \E s \in PltSymbols, r \in Replacements, w \in BOOLEAN : PltHookSymbol(s, r, w)
    \/ \E s \in PltSymbols, w \in BOOLEAN : PltUnhookSymbol(s, w)
    \/ PltDtorLock
    \/ PltDtorStep

SpecPlt == InitPlt /\ [][NextPlt]_vars
\* the destructor's thread keeps running
SpecPltFair == SpecPlt /\ WF_vars(PltDtorStep)

JumpSlotSymbols == {s \in PltSymbols : find_jump_slot(s, 1) # 0}
GotOf(s) == Relocations[find_jump_slot(s, 1)].r_offset

C26_RehookKeepsOriginal ==
    [][\A s \in PltSymbols, r \in Replacements \ {NULL} :
         (PltHookSymbol(s, r, TRUE) /\ s \in DOMAIN plt.entries_)
            => /\ plt'.got = [plt.got EXCEPT ![GotOf(s)] = r]
               /\ plt'.entries_[s].original = plt.entries_[s].original
               /\ plt'.ret.ok
               /\ plt'.ret.original = plt.image_got[GotOf(s)]
               /\ unhook_symbol(plt', s, TRUE).got[GotOf(s)] = plt.image_got[GotOf(s)]]_vars

\* puts is hooked a second time, with another replacement
C26_Witness ==
    /\ plt.ret.op = "hook_again" /\ plt.ret.ok /\ plt.ret.symbol = "puts"
    /\ plt.entries_["puts"].replacement = Cb(2)
    /\ plt.got[GotOf("puts")] = Cb(2)
    /\ plt.ret.original = plt.image_got[GotOf("puts")]

\* C27: the destructor of a Hook that has hooked symbols returns, and when it
\* has returned every GOT entry holds the pointer it held before the hooks.
C27_DestructorRestores ==
    (plt.pc = "dtor" /\ plt.todo # {}) ~> (plt.pc = "destroyed" /\ plt.got = plt.image_got)

\* ------------------------------------------------------------------------
\* A thread running through the detour stub while update_detour_stub
\* rewrites it.  ds is [addr, words, old, new, pending, at, seen, to]: the
\* stub and its words, its destination before and after the update, the
\* words memcpy has still to store, the position of the executing thread
\* (0 before the stub, 6 after its BR), the words it has executed and where
\* its BR went.
\* ------------------------------------------------------------------------
\* detours: two in one 64 KiB block and one in the next
StubCallbacks == Callbacks \cup {Cb(257)}

InitStub ==
    /\ InitEngine
    /\ plan = NoPlan
    /\ rel = NoReloc
    /\ ap = NoAtomic
    /\ enc = NoEncode
    /\ plt = NoPlt
    /\ \E a \in ConcStubChoices(1), old \in StubCallbacks, new \in StubCallbacks, busy \in BOOLEAN :
          ds = [addr |-> a, words |-> gen_abs_jump(old), old |-> old, new |-> new,
                  pending |-> IF busy THEN 1..Len(gen_abs_jump(new)) ELSE {},
                  at |-> 0, seen |-> << >>, to |-> NULL]

\* update_detour_stub: memcpy(info.detour_stub, stub_code.data(), ...), one
\* word of it; the order in which the words become visible is not fixed
StubStore(i) ==
    /\ i \in ds.pending
    /\ ds' = [ds EXCEPT !.words[i] = gen_abs_jump(ds.new)[i],
                            !.pending = ds.pending \ {i}]
    /\ UNCHANGED <<plan, rel, vmt, ap, enc, plt, hvars, cvars, mvars>>

\* a caller of the hooked function arrives at the stub
StubEnter ==
    /\ ds.at = 0
    /\ ds' = [ds EXCEPT !.at = 1]
    /\ UNCHANGED <<plan, rel, vmt, ap, enc, plt, hvars, cvars, mvars>>

\* the thread executes the word at its position; the BR ends the stub
StubExecute ==
    /\ ds.at \in 1..Len(ds.words)
    /\ LET seen == Append(ds.seen, ds.words[ds.at])
       IN  ds' = [ds EXCEPT !.seen = seen,
                                !.at = ds.at + 1,
                                !.to = IF ds.words[ds.at][1] = "BR"
                                       THEN JumpDest(seen, ds.addr) ELSE ds.to]
    /\ UNCHANGED <<plan, rel, vmt, ap, enc, plt, hvars, cvars, mvars>>

NextStub ==
    \/ \E i \in 1..(ABS_JUMP_SIZE \div WORD) : StubStore(i)
    \/ StubEnter
    \/ StubExecute

SpecStub == InitStub /\ [][NextStub]_vars

\* C28: a thread that runs through the detour stub while the stub is being
\* rewritten leaves it for the destination the stub had before the update or
\* the one it has after it, never for an address put together from words of
\* both.
C28_StubBranchOldOrNew ==
    ds.at > Len(ds.words) => ds.to \in {ds.old, ds.new}

\* ========================================================================
\* Executing a mid-hooked function
\* ========================================================================
\* The hooked function of the mid-hook tests: a run of NOPs, then
\* w0 = w0 + w1 as the last word the model keeps, then RET.
MidInsn(i) == IF i = MemWords THEN "ADD" ELSE "NOP"

\* the value modifying_callback stores in context slot 0
CallbackValue == 100

\* modifying_callback(context): context->gpr[0] = 100
modifying_callback(ctx) == [ctx EXCEPT !.x0 = CallbackValue]

\* the body of the detour MidHook::do_hook emits for callback cb
mid_detour_code(cb) ==
    << <<"SUB_SP", 256>>, <<"STP_CTX", 0>>, <<"STR_LR", 240>>,
       <<"MOV_X0_SP", 0>>, <<"ABS_CALL", cb>>,
       <<"LDP_CTX", 0>>, <<"LDR_LR", 240>>, <<"ADD_SP", 256>>,
       <<"RET", 0>> >>

\* Executing detour code from instruction i.  A cpu is
\* [x0, x1, lr, ctx, at]: two argument registers, the link register, the
\* context record on the stack and where control is: "detour", "caller"
\* (the function has returned) or a word index of the target.
RECURSIVE run_detour(_, _, _)
run_detour(cpu, code, i) ==
    IF i > Len(code) THEN cpu
    ELSE LET op == code[i][1]
         IN  CASE op = "STP_CTX" ->
                    run_detour([cpu EXCEPT !.ctx.x0 = cpu.x0, !.ctx.x1 = cpu.x1],
                               code, i + 1)
               [] op = "STR_LR" ->
                    run_detour([cpu EXCEPT !.ctx.lr = cpu.lr], code, i + 1)
               [] op = "ABS_CALL" ->
                    run_detour([cpu EXCEPT !.ctx = modifying_callback(cpu.ctx),
                                           !.seen = cpu.ctx.x0],
                               code, i + 1)
               [] op = "LDP_CTX" ->
                    run_detour([cpu EXCEPT !.x0 = cpu.ctx.x0, !.x1 = cpu.ctx.x1],
                               code, i + 1)
               [] op = "LDR_LR" ->
                    run_detour([cpu EXCEPT !.lr = cpu.ctx.lr], code, i + 1)
               [] op = "RET" -> [cpu EXCEPT !.at = cpu.lr]
               [] OTHER -> run_detour(cpu, code, i + 1)

\* Executing the target function from word i of its code m, with the
\* MidHook object md.
RECURSIVE run_target(_, _, _, _)
run_target(cpu, m, md, i) ==
    IF i > Len(m) THEN [cpu EXCEPT !.at = cpu.lr]
    ELSE IF m[i][1] = "ORIG"
         THEN run_target((IF MidInsn(m[i][3]) = "ADD"
                          THEN [cpu EXCEPT !.x0 = cpu.x0 + cpu.x1] ELSE cpu),
                         m, md, i + 1)
    ELSE IF JumpDest(SubSeq(m, i, Len(m)), MidTargetAddr + i - 1) = md.detour_
              /\ md.detour_ # NULL
         THEN LET out == run_detour(cpu, mid_detour_code(md.callback_), 1)
              IN  IF out.at = "caller" THEN out
                  ELSE run_target(out, m, md, out.at)
    ELSE [cpu EXCEPT !.at = "lost"]

\* target_function(a, b) called by a caller: the cpu when it returns
call_target(a, b) ==
    run_target([x0 |-> a, x1 |-> b, lr |-> "caller",
                ctx |-> [x0 |-> 0, x1 |-> 0, lr |-> "none"],
                seen |-> -1, at |-> 1],
               mid_mem, mid, 1)

\* the arguments the hooked function is called with
MidArgValues == {5, 10}

\* C13: with a mid-hook installed and enabled on the function and no
\* operation in progress, a call f(a, b) runs the callback, which sees a in
\* slot 0 and stores 100 there, and then the rest of the function runs with
\* the modified registers: the call returns 100 + b.
C13_MidHookResumesTarget ==
    (mid_is_valid(mid) /\ mid.is_enabled_ /\ \A k \in Threads : thr[k].pc = "idle")
        => \A a \in MidArgValues, b \in MidArgValues :
               LET r == call_target(a, b)
               IN  r.at = "caller" /\ r.seen = a /\ r.x0 = CallbackValue + b

\* ========================================================================
\* Properties of the inline-hook engine (sequential callers)
\* ========================================================================
\* the chain of target t (empty when t has no HookInfo)
Chain(t) == IF t \in DOMAIN g_hooks THEN g_hooks[t].entries ELSE << >>

\* the address control reaches when a thread calls target t: the
\* destination of the jump at the target, followed through the detour stub
\* when the jump lands on a live mapping; -1 when the target does not start
\* with a jump
RouteOf(t) ==
    LET d == JumpDest(mem[t], TargetAddr(t))
    IN  IF d \in DOMAIN maps THEN JumpDest(maps[d], d) ELSE d

\* the handles that are constructed and valid
ValidHandles == {h \in alive : is_valid(handles[h])}

\* C1: when the last hook of a target is uninstalled (by unhook() or by the
\* destructor), the first backup_size bytes of the target are the bytes it
\* held before the first install and the registry no longer has a HookInfo
\* for the target.
C1_LastUninstallRestores ==
    [][\A h \in Handles :
         LET t == handles[h].target_address_
         IN  ((Unhook(h) \/ Destroy(h)) /\ is_valid(handles[h])
              /\ t \in DOMAIN g_hooks /\ Len(g_hooks[t].entries) = 1
              /\ g_hooks[t].entries[1].owner = h)
             => (/\ t \notin DOMAIN g_hooks'
                 /\ SubSeq(mem'[t], 1, g_hooks[t].backup_size \div WORD)
                      = SubSeq(OriginalCode(t), 1, g_hooks[t].backup_size \div WORD)
                 /\ g_hooks[t].backup_size >= WORD)]_vars

\* C1 witness: two hooks were installed on target 1 and both uninstalled
\* through unhook(); the registry is empty again and the code is original.
C1_Witness ==
    /\ \E h1 \in alive, h2 \in alive :
          h1 # h2 /\ ~is_valid(handles[h1]) /\ ~is_valid(handles[h2])
    /\ 1 \notin DOMAIN g_hooks
    /\ mem[1] = OriginalCode(1)

\* C2: if no entry of the chain is enabled the target holds its original
\* bytes; otherwise a call of the target reaches the callback of the first
\* enabled entry.
C2_TargetRoutesToFirstEnabled ==
    \A t \in Targets :
        LET fe == find_enabled(Chain(t), 1)
        IN  IF fe = 0 THEN mem[t] = OriginalCode(t)
            ELSE RouteOf(t) = Chain(t)[fe].callback

\* C3: what call_original of a valid handle invokes is the callback of the
\* entry that follows its own entry in the chain, or the trampoline when its
\* entry is the tail.
C3_CallOriginalFollowsChain ==
    \A h \in ValidHandles :
        LET t == handles[h].target_address_
            i == find_owner(Chain(t), h, 1)
        IN  i # 0 =>
              handles[h].original_func_ =
                (IF i < Len(Chain(t)) THEN Chain(t)[i + 1].callback
                 ELSE g_hooks[t].trampoline)

\* the callback of the nearest enabled entry after position i, or the
\* trampoline when there is none
RECURSIVE NextEnabled(_, _, _)
NextEnabled(es, i, tramp) ==
    IF i >= Len(es) THEN tramp
    ELSE IF es[i + 1].is_enabled THEN es[i + 1].callback
    ELSE NextEnabled(es, i + 1, tramp)

\* C4: call_next of every enabled entry is the current callback of the
\* nearest enabled entry later in the chain, or the trampoline.
C4_CallNextSkipsDisabled ==
    \A t \in DOMAIN g_hooks :
        \A i \in 1..Len(g_hooks[t].entries) :
            g_hooks[t].entries[i].is_enabled =>
                g_hooks[t].entries[i].call_next =
                    NextEnabled(g_hooks[t].entries, i, g_hooks[t].trampoline)

\* C9: an install that throws after its arguments were accepted leaves the
\* registry, the chain, the target bytes and the set of executable mappings
\* as they were before the call.
C9_FailedInstallLeavesNoTrace ==
    [][\A h \in Handles, t \in Targets, cb \in Callbacks, en \in BOOLEAN :
         \A stub \in StubChoices(t), tramp \in TrampChoices(t) :
            (/\ Install(h, t, cb, en, stub, tramp)
             /\ HookCtorThrows(World, [h |-> h, t |-> t, cb |-> cb, en |-> en,
                                       stub |-> stub, tramp |-> tramp]))
            => (g_hooks' = g_hooks /\ mem' = mem /\ maps' = maps)]_vars

\* C10: between calls, the registry has a HookInfo for a target exactly when
\* the chain of that target has at least one entry.
C10_RegistryIffChainNonEmpty ==
    \A t \in Targets : (t \in DOMAIN g_hooks) <=> (Chain(t) # << >>)

\* C11: after uninstalling one entry of a chain that stays non-empty, the
\* detour stub jumps to the callback of the new head entry when some
\* remaining entry is enabled, and to the trampoline when no remaining entry
\* is enabled.
C11_UninstallReroutesStub ==
    [][\A h \in Handles :
         LET t == handles[h].target_address_
         IN  ((Unhook(h) \/ Destroy(h)) /\ is_valid(handles[h])
              /\ t \in DOMAIN g_hooks
              /\ find_owner(g_hooks[t].entries, h, 1) # 0
              /\ Len(g_hooks[t].entries) > 1
              /\ g_hooks[t].detour_stub # NULL)
             => (/\ t \in DOMAIN g_hooks'
                 /\ g_hooks'[t].detour_stub \in DOMAIN maps'
                 /\ JumpDest(maps'[g_hooks'[t].detour_stub], g_hooks'[t].detour_stub)
                      = (IF find_enabled(g_hooks'[t].entries, 1) # 0
                         THEN g_hooks'[t].entries[1].callback
                         ELSE g_hooks'[t].trampoline))]_vars

\* the address a call of target t reaches in world w (RouteOf, for a world)
WorldRoute(w, t) ==
    LET d == JumpDest(w.m[t], TargetAddr(t))
    IN  IF d \in DOMAIN w.x THEN JumpDest(w.x[d], d) ELSE d

\* the owners of a chain, in chain order
Owners(es) == [i \in 1..Len(es) |-> es[i].owner]

\* target t is routed to the callback of the first enabled entry of its
\* chain, or holds its original bytes when no entry is enabled
RoutedToFirstEnabled(w, t) ==
    LET es == w.g[t].entries
    IN  IF \A i \in 1..Len(es) : ~es[i].is_enabled
        THEN w.m[t] = OriginalCode(t)
        ELSE \E i \in 1..Len(es) :
                /\ es[i].is_enabled
                /\ \A j \in 1..(i - 1) : ~es[j].is_enabled
                /\ WorldRoute(w, t) = es[i].callback

\* a call that flipped the flag of h: true returned, same chain order,
\* target re-routed
FlagFlipped(w, w2, h, ret) ==
    LET t == w.hd[h].target_address_
    IN  /\ ret
        /\ t \in DOMAIN w.g /\ t \in DOMAIN w2.g
        /\ Owners(w2.g[t].entries) = Owners(w.g[t].entries)
        /\ RoutedToFirstEnabled(w2, t)

\* a call that refused: false returned, chain, stub and target bytes untouched
FlagRefused(w, w2, ret) == ~ret /\ w2.g = w.g /\ w2.x = w.x /\ w2.m = w.m

\* C12 as the claim states it: for every valid handle, enable() of a disabled
\* hook and disable() of an enabled hook return true, keep the chain's length
\* and order and leave the target routed to the first enabled entry (or
\* original when none is enabled); enable() of an enabled hook and disable()
\* of a disabled hook return false and change nothing.
C12_AsStated ==
    \A h \in ValidHandles :
        IF handles[h].is_enabled_
        THEN /\ FlagFlipped(World, disable(World, h), h, disable_result(World, h))
             /\ FlagRefused(World, enable(World, h), enable_result(World, h))
        ELSE /\ FlagFlipped(World, enable(World, h), h, enable_result(World, h))
             /\ FlagRefused(World, disable(World, h), disable_result(World, h))

\* C12, amended: the same, for hooks that have a callback; enable() of a
\* disabled hook whose callback is null returns false and changes nothing.
C12_EnableDisable ==
    \A h \in ValidHandles :
        IF handles[h].is_enabled_
        THEN /\ FlagFlipped(World, disable(World, h), h, disable_result(World, h))
             /\ FlagRefused(World, enable(World, h), enable_result(World, h))
        ELSE /\ IF handles[h].callback_ # NULL
                THEN FlagFlipped(World, enable(World, h), h, enable_result(World, h))
                ELSE FlagRefused(World, enable(World, h), enable_result(World, h))
             /\ FlagRefused(World, disable(World, h), disable_result(World, h))

\* C12 witness: a chain of two hooks whose head is disabled and whose second
\* entry is enabled, the target routed to the second entry's callback: the
\* state disable() of the head leaves, and one where enable() of the head
\* flips it back.
C12_Witness ==
    /\ 1 \in DOMAIN g_hooks
    /\ Len(g_hooks[1].entries) = 2
    /\ ~g_hooks[1].entries[1].is_enabled /\ g_hooks[1].entries[2].is_enabled
    /\ g_hooks[1].entries[1].callback # NULL
    /\ g_hooks[1].entries[1].callback # g_hooks[1].entries[2].callback
    /\ g_hooks[1].entries[1].owner \in ValidHandles
    /\ RouteOf(1) = g_hooks[1].entries[2].callback

\* C19: set_detour(c) on an installed hook stores c in its entry, and when
\* that entry is the first enabled entry of its chain the target is routed
\* to c, so the next call of the target runs c.
C19_SetDetourRedirects ==
    \A h \in ValidHandles, c \in Callbacks :
        LET t == handles[h].target_address_
            i == find_owner(Chain(t), h, 1)
            w2 == set_detour(World, h, c)
        IN  (t \in DOMAIN g_hooks /\ i # 0)
                => /\ w2.g[t].entries[i].callback = c
                   /\ (/\ Chain(t)[i].is_enabled
                       /\ \A j \in 1..(i - 1) : ~Chain(t)[j].is_enabled)
                          => WorldRoute(w2, t) = c

\* the number of leading bytes of target t that differ between two memories
BytesWritten(m1, m2, t) ==
    LET changed == {i \in 1..MemWords : m1[t][i] # m2[t][i]}
    IN  IF changed = {} THEN 0
        ELSE WORD * (CHOOSE i \in changed : \A j \in changed : j <= i)

\* C17: for every HookInfo that has a trampoline, backup_size covers the
\* cached patch sequence, covers the 20-byte absolute jump when the target is
\* patched without a stub or without a cached sequence, and no step of the
\* engine changes a byte of the target beyond the first backup_size bytes.
C17_BackupCoversPatch ==
    [][\A t \in DOMAIN g_hooks' :
          LET info == g_hooks'[t]
          IN  info.trampoline # NULL
                  => /\ Len(info.target_patch_code) * WORD <= info.backup_size
                     /\ (info.detour_stub = NULL \/ info.target_patch_code = << >>)
                            => ABS_JUMP_SIZE <= info.backup_size
                     /\ BytesWritten(mem, mem', t) <= info.backup_size]_vars

\* C17 witness: a target hooked without a detour stub, the first 20 bytes
\* of the target overwritten by the absolute jump to the callback of the
\* enabled head of its chain.
C17_Witness ==
    \E t \in DOMAIN g_hooks :
        /\ g_hooks[t].trampoline # NULL
        /\ g_hooks[t].detour_stub = NULL
        /\ g_hooks[t].entries # << >> /\ g_hooks[t].entries[1].is_enabled
        /\ SubSeq(mem[t], 1, ABS_JUMP_SIZE \div WORD)
              = gen_abs_jump(g_hooks[t].entries[1].callback)

\* the patch size install selects for target t when mmap returns stub
SelectedPatchSize(h, t, cb, en, stub, tramp) ==
    LET a == [h |-> h, t |-> t, cb |-> cb, en |-> en, stub |-> stub, tramp |-> tramp]
    IN  inst_alloc(inst_lookup(World, a), a).g[t].patch_size_at_target

\* C18: an install on a function with fewer bytes than the selected patch
\* sequence needs fails (no hook is constructed) and leaves the bytes at the
\* target as they were.
C18_TargetTooShort ==
    [][\A h \in Handles, cb \in Callbacks, en \in BOOLEAN :
         \A stub \in StubResults(ShortTarget), tramp \in TrampResults(ShortTarget) :
            (/\ Install(h, ShortTarget, cb, en, stub, tramp)
             /\ FunctionWords(ShortTarget) * WORD
                   < SelectedPatchSize(h, ShortTarget, cb, en, stub, tramp))
                => /\ h \notin alive'
                   /\ mem'[ShortTarget] = mem[ShortTarget]]_vars

\* C22: disable() of an enabled mid-hook returns true and leaves the
\* original bytes at the target, so the detour is no longer entered; enable()
\* of a disabled one returns true and leaves the jump to the same detour;
\* after unhook() the handle is invalid, the target holds its original bytes
\* and enable() and disable() return false.
C22_MidEnableDisableUnhook ==
    [][\A k \in Threads :
         /\ (MidFinish(k) /\ thr[k].op = "mid_disable")
               => /\ mid_disable_result(mid)
                  /\ mid_mem' = MidOriginalCode
                  /\ JumpDest(mid_mem', MidTargetAddr) # mid.detour_
                  /\ mid_is_valid(mid') /\ ~mid'.is_enabled_
         /\ (MidFinish(k) /\ thr[k].op = "mid_enable")
               => /\ mid_enable_result(mid)
                  /\ mid'.detour_ = mid.detour_
                  /\ JumpDest(mid_mem', MidTargetAddr) = mid.detour_
                  /\ mid_is_valid(mid') /\ mid'.is_enabled_
         /\ ((MidFinish(k) /\ thr[k].op = "mid_unhook") \/ MidUnhookDisabled(k))
               => /\ ~mid_is_valid(mid')
                  /\ mid_mem' = MidOriginalCode
                  /\ ~mid_enable_result(mid') /\ ~mid_disable_result(mid')]_vars

\* C22 witness: a valid mid-hook that is disabled, the target holding its
\* original bytes and no call in progress: the state disable() leaves.
C22_Witness ==
    /\ mid_is_valid(mid) /\ ~mid.is_enabled_
    /\ mid_mem = MidOriginalCode
    /\ \A k \in Threads : thr[k].pc = "idle"

\* C24: move-constructing a Hook from a handle that owns an entry changes
\* the owner of that entry and nothing else: chain order, callbacks,
\* call_next, enabled flags, the stub and the target bytes stay as they were;
\* the moved-from handle is invalid afterwards, and an uninstall through the
\* new handle then removes exactly that entry.
C24_MoveChangesOnlyOwner ==
    [][\A dst \in AllHandles, src \in AllHandles :
         (/\ MoveConstruct(dst, src)
          /\ is_valid(handles[src])
          /\ handles[src].target_address_ \in DOMAIN g_hooks
          /\ find_owner(g_hooks[handles[src].target_address_].entries, src, 1) # 0)
         => LET t == handles[src].target_address_
                i == find_owner(g_hooks[t].entries, src, 1)
                after == do_unhook(World', dst)
            IN  /\ g_hooks' = [g_hooks EXCEPT ![t].entries[i].owner = dst]
                /\ mem' = mem
                /\ maps' = maps
                /\ ~is_valid(handles'[src])
                /\ handles'[dst] = handles[src]
                /\ \A h \in AllHandles \ {dst, src} : handles'[h] = handles[h]
                /\ IF Len(g_hooks[t].entries) = 1 THEN t \notin DOMAIN after.g
                   ELSE /\ t \in DOMAIN after.g
                        /\ Owners(after.g[t].entries) = RemoveAt(Owners(g_hooks'[t].entries), i)
                        /\ \A j \in 1..Len(after.g[t].entries) :
                              after.g[t].entries[j].callback
                                  = RemoveAt(g_hooks[t].entries, i)[j].callback]_vars

\* a chain of two entries whose front entry is owned by a move-constructed
\* handle while the handle it was moved from is invalid
C24_Witness ==
    /\ 1 \in DOMAIN g_hooks
    /\ Len(g_hooks[1].entries) = 2
    /\ \E i \in 1..2 : g_hooks[1].entries[i].owner = MoveHandle
    /\ MoveHandle \in alive
    /\ is_valid(handles[MoveHandle])
    /\ \E h \in alive : ~is_valid(handles[h])

\* ========================================================================
\* Properties of the threaded library
\* ========================================================================
\* the threads inside a call of the inline-hook engine, past its locks
InCriticalSection(k) ==
    thr[k].pc \in {"reg", "info", "tail", "head", "post", "freed", "unwind"}

\* C5: while a call of the inline-hook engine is between the first store of
\* its patch and the store of the head word, every other thread of the
\* process is suspended by the patching thread.
C5_PatchUnderStopTheWorld ==
    \A k \in Threads :
        (thr[k].op \in InlineOps /\ thr[k].pc \in {"tail", "head"}) => stw = k

\* C6: when an operation has finished writing a patch or the original bytes
\* to its target, its last store is a 4-byte store to bytes [0, 4).
C6_HeadStoreLastAndSeparate ==
    \A k \in Threads :
        (thr[k].pc \in {"post", "m_post"} /\ thr[k].stores # << >>)
            => thr[k].stores[Len(thr[k].stores)] = <<0, WORD>>

\* C7: whenever no call is inside its critical section, the registry, the
\* chains, the detour stubs, the target bytes and the handles are what they
\* would be had the calls made so far run one at a time, each in one piece,
\* in the order in which they took the locks.
C7_Linearizable ==
    (\A k \in Threads : ~InCriticalSection(k)) => World = lin

\* C7 witness: a call on target 1 has updated the chain and is in the middle
\* of its patch while another thread's call on the same target waits for
\* the registry mutex.
C7_Witness ==
    \E k \in Threads, j \in Threads :
        /\ k # j
        /\ thr[k].pc = "head" /\ thr[k].op \in InlineOps
        /\ thr[j].pc = "call" /\ thr[j].op \in InlineOps
        /\ thr[j].t = thr[k].t
        /\ World # lin

\* C8: while an install on target A allocates, builds the trampoline or
\* patches, it does not hold the registry mutex, and an install on another
\* target B that is about to lock the registry mutex can lock it.
C8_InstallReleasesRegistryMutex ==
    \A k \in Threads, j \in Threads :
        (/\ thr[k].op = "install" /\ thr[k].pc \in {"info", "tail", "head"}
         /\ thr[j].op = "install" /\ thr[j].pc = "call"
         /\ thr[j].t # thr[k].t)
        => (g_hooks_mutex # k /\ ENABLED Acquire(j))

\* C29: the mutex of a HookInfo is never held, locked or unlocked once the
\* HookInfo has been erased from the registry and destroyed: a thread that
\* holds or waits to release the mutex of target t finds the HookInfo of t in
\* the registry, so the uninstall that empties a chain releases the mutex
\* before it erases the HookInfo.
C29_NoUseAfterErase ==
    \A k \in Threads :
        (thr[k].op \in InlineOps /\ info_mutex[thr[k].t] = k)
            => thr[k].t \in DOMAIN g_hooks

====
